---- MODULE Spec2Model ----
(***************************************************************************)
(* Model of the risk-gating and trade-lifecycle core of Scalp-V0:          *)
(*   - core/state_manager.py   StateManager (protective state machine)     *)
(*   - execution/order_executor.py  OrderExecutor (single active trade)    *)
(*                                                                         *)
(* Encoding.  Money is an integer number of USDT, time an integer number   *)
(* of minutes, a calendar day an integer.  A percentage is the pair        *)
(* <<num, den>>; a ratio computed by the code (the drawdown) is kept as a  *)
(* reduced pair and compared by cross-multiplication, which is what the    *)
(* correctly-rounded float division and comparison of the code compute on  *)
(* integral operands.  An Optional value is <<>> (None) or <<x>>.          *)
(***************************************************************************)
EXTENDS Integers, Sequences, FiniteSets, TLC

VARIABLES
  \* StateManager: configuration, clock, the manager's fields, the last call
  \* and what it returned, number of trade results fed
  config, now, sm, lastOp, ret, trades_fed,
  \* exchange gateway: net position row, visible execution feed, executions
  \* not yet published in the feed, number of orders accepted
  gw_position, gw_executions, gw_pending, gw_orders,
  \* OrderExecutor: the _active_trade slot, and what the last call did and
  \* returned
  active_trade, ex_obs,
  \* BotRunner: where the driver stands (between cycles or inside the
  \* monitoring loop) and the ActiveTrade object it holds; the market
  \* snapshot, the position list and the sizing call last handed to a
  \* component; the fills poll_trade_close has returned for the held trade
  pc, held_trade, snapshot, in_rows, risk_call, returned,
  \* persistence: the snapshot file config/state.json, the driver's
  \* _cycle_counter, and whether a trade close has ever ended in HALT
  disk, cycle_counter, halt_seen,
  \* TradingView webhook service: the ACTIVE_POSITIONS registry, what the
  \* last request did and returned, and per key the last order that
  \* succeeded, and the number of requests handled
  ACTIVE_POSITIONS, hook_obs, hook_hist, hook_requests

smvars == <<config, now, sm, lastOp, ret, trades_fed>>
gwvars == <<gw_position, gw_executions, gw_pending, gw_orders>>
exvars == <<active_trade, ex_obs>>
drvvars == <<pc, held_trade, snapshot, in_rows, risk_call, returned>>
pstvars == <<disk, cycle_counter, halt_seen>>
hookvars == <<ACTIVE_POSITIONS, hook_obs, hook_hist, hook_requests>>
vars == <<smvars, gwvars, exvars, drvvars, pstvars, hookvars>>

(* ------------------------------ bounds --------------------------------- *)
MaxNow == 4
MaxTrades == 4
MaxDay == 1

(* ------------------------------ helpers -------------------------------- *)
None == <<>>
Some(x) == <<x>>
IsSome(o) == o # <<>>
Val(o) == o[1]

Max(a, b) == IF a >= b THEN a ELSE b

RECURSIVE Gcd(_, _)
Gcd(a, b) == IF b = 0 THEN a ELSE Gcd(b, a % b)

\* the ratio n/d (n >= 0, d > 0) as a reduced pair
Ratio(n, d) == LET g == Gcd(n, d) IN <<n \div g, d \div g>>
RatioGeq(p, q) == p[1] * q[2] >= q[1] * p[2]
RatioMax(p, q) == IF RatioGeq(p, q) THEN p ELSE q
\* amount * pct for a percentage pair
PctOf(amount, pct) == (amount * pct[1]) \div pct[2]

(* ------------------------------ BotMode -------------------------------- *)
NORMAL == "NORMAL"
COOLDOWN == "COOLDOWN"
LIMITED == "LIMITED"
HALT == "HALT"
BotMode == {NORMAL, COOLDOWN, LIMITED, HALT}

(* ------------------------------ config --------------------------------- *)
ConfigSet ==
  [ reference_account_size_usdt : {100},
    max_daily_loss_pct : {<<7, 100>>},
    max_consecutive_losses_for_cooldown : {2},
    global_drawdown_pct : {<<15, 100>>},
    limited_mode_recovery_pct : {<<3, 100>>},
    limited_mode_duration_minutes : {2},
    cooldown_short_minutes : {0, 1},
    cooldown_long_minutes : {0, 2},
    max_daily_trades : {4},
    min_atr : {2},
    risk_per_trade_pct : {<<4, 100>>},
    time_stop_minutes : {0} ]

\* TradeResult inputs: pnl, fees and the UTC day of the timestamp
TradeResults == [ pnl : {-3, 4}, fees : {0, 2}, day : 0..MaxDay ]

net_pnl(tr) == tr.pnl - tr.fees
is_loss(tr) == net_pnl(tr) < 0

(* --------------------------- StateManager ------------------------------ *)
NewSessionStats(day) ==
  [ trading_day |-> day, daily_pnl |-> 0, daily_trades |-> 0, consecutive_losses |-> 0 ]

MinutesPerDay == 1440
current_day(t) == t \div MinutesPerDay

\* StateManager.__init__ without initial_state
FreshState(cfg, t) ==
  [ mode |-> NORMAL,
    session_stats |-> NewSessionStats(current_day(t)),
    equity_stats |-> [ cumulative_pnl |-> 0,
                       peak_equity |-> cfg.reference_account_size_usdt,
                       max_drawdown_pct |-> <<0, 1>> ],
    cooldown_until |-> None,
    next_mode_after_cooldown |-> NORMAL,
    limited_until |-> None,
    limited_exit_equity |-> None,
    cooldown_counters |-> [ short |-> 0, long |-> 0 ] ]

max_daily_loss_abs(cfg) == PctOf(cfg.reference_account_size_usdt, cfg.max_daily_loss_pct)

current_equity(s, cfg) == cfg.reference_account_size_usdt + s.equity_stats.cumulative_pnl

maybe_roll_daily_stats(s, day) ==
  IF day # s.session_stats.trading_day
    THEN [ s EXCEPT !.session_stats = NewSessionStats(day) ]
    ELSE s

\* variant: records the current drawdown instead of the running maximum
update_drawdown_metrics_current(s, cfg) ==
  LET eq   == cfg.reference_account_size_usdt + s.equity_stats.cumulative_pnl
      peak == Max(s.equity_stats.peak_equity, eq)
      s1   == [ s EXCEPT !.equity_stats.peak_equity = peak ]
  IN IF peak <= 0
       THEN s1
       ELSE [ s1 EXCEPT !.equity_stats.max_drawdown_pct = Ratio(peak - eq, peak) ]

update_drawdown_metrics(s, cfg) ==
  LET eq   == cfg.reference_account_size_usdt + s.equity_stats.cumulative_pnl
      peak == Max(s.equity_stats.peak_equity, eq)
      s1   == [ s EXCEPT !.equity_stats.peak_equity = peak ]
  IN IF peak <= 0
       THEN s1
       ELSE [ s1 EXCEPT !.equity_stats.max_drawdown_pct =
                RatioMax(s.equity_stats.max_drawdown_pct, Ratio(peak - eq, peak)) ]

enter_cooldown(s, cfg, t, minutes, next_mode) ==
  IF minutes <= 0
    THEN [ s EXCEPT !.mode = next_mode ]
    ELSE LET until == t + minutes
             s1 == [ s EXCEPT !.mode = COOLDOWN,
                              !.cooldown_until = Some(until),
                              !.next_mode_after_cooldown = next_mode ]
         IN IF next_mode = LIMITED
              THEN [ s1 EXCEPT
                       !.limited_until = Some(until + cfg.limited_mode_duration_minutes),
                       !.limited_exit_equity =
                          Some(current_equity(s, cfg)
                               + PctOf(cfg.reference_account_size_usdt,
                                       cfg.limited_mode_recovery_pct)) ]
              ELSE s1

\* _cooldown_enabled is set to True in __init__ and never written again
trigger_daily_loss_cooldown(s, cfg, t) ==
  enter_cooldown([ s EXCEPT !.cooldown_counters.long = @ + 1 ],
                 cfg, t, cfg.cooldown_long_minutes, LIMITED)

trigger_short_cooldown(s, cfg, t) ==
  enter_cooldown([ s EXCEPT !.cooldown_counters.short = @ + 1 ],
                 cfg, t, cfg.cooldown_short_minutes, NORMAL)

\* variant: the cooldown expiry is applied whatever the mode is
evaluate_timers_any_mode(s, t) ==
  LET s1 == IF IsSome(s.cooldown_until) /\ t >= Val(s.cooldown_until)
              THEN [ s EXCEPT !.mode = s.next_mode_after_cooldown,
                              !.cooldown_until = None ]
              ELSE s
  IN IF s1.mode = LIMITED /\ IsSome(s1.limited_until) /\ t >= Val(s1.limited_until)
       THEN [ s1 EXCEPT !.mode = NORMAL,
                        !.limited_until = None,
                        !.limited_exit_equity = None ]
       ELSE s1

\* variant: the limited-window expiry is an "elif" of the cooldown expiry
evaluate_timers_single_step(s, t) ==
  IF s.mode = COOLDOWN /\ IsSome(s.cooldown_until) /\ t >= Val(s.cooldown_until)
    THEN [ s EXCEPT !.mode = s.next_mode_after_cooldown,
                    !.cooldown_until = None ]
    ELSE IF s.mode = LIMITED /\ IsSome(s.limited_until) /\ t >= Val(s.limited_until)
           THEN [ s EXCEPT !.mode = NORMAL,
                           !.limited_until = None,
                           !.limited_exit_equity = None ]
           ELSE s

\* variant: a cooldown that expires resets the losing streak
evaluate_timers_resets_streak(s, t) ==
  LET s1 == IF s.mode = COOLDOWN /\ IsSome(s.cooldown_until) /\ t >= Val(s.cooldown_until)
              THEN [ s EXCEPT !.mode = s.next_mode_after_cooldown,
                              !.cooldown_until = None,
                              !.session_stats.consecutive_losses = 0 ]
              ELSE s
  IN IF s1.mode = LIMITED /\ IsSome(s1.limited_until) /\ t >= Val(s1.limited_until)
       THEN [ s1 EXCEPT !.mode = NORMAL,
                        !.limited_until = None,
                        !.limited_exit_equity = None ]
       ELSE s1

evaluate_timers(s, t) ==
  LET s1 == IF s.mode = COOLDOWN /\ IsSome(s.cooldown_until) /\ t >= Val(s.cooldown_until)
              THEN [ s EXCEPT !.mode = s.next_mode_after_cooldown,
                              !.cooldown_until = None ]
              ELSE s
  IN IF s1.mode = LIMITED /\ IsSome(s1.limited_until) /\ t >= Val(s1.limited_until)
       THEN [ s1 EXCEPT !.mode = NORMAL,
                        !.limited_until = None,
                        !.limited_exit_equity = None ]
       ELSE s1

\* variant: the equity exit leaves the window in place
evaluate_limited_exit_keeps_window(s, cfg) ==
  IF /\ s.mode = LIMITED
     /\ IsSome(s.limited_exit_equity)
     /\ Val(s.limited_exit_equity) # 0
     /\ current_equity(s, cfg) >= Val(s.limited_exit_equity)
    THEN [ s EXCEPT !.mode = NORMAL ]
    ELSE s

\* "if self._limited_exit_equity" is false for None and for 0.0
evaluate_limited_exit(s, cfg) ==
  IF /\ s.mode = LIMITED
     /\ IsSome(s.limited_exit_equity)
     /\ Val(s.limited_exit_equity) # 0
     /\ current_equity(s, cfg) >= Val(s.limited_exit_equity)
    THEN [ s EXCEPT !.mode = NORMAL,
                    !.limited_exit_equity = None,
                    !.limited_until = None ]
    ELSE s

evaluate_global_drawdown(s, cfg) ==
  IF RatioGeq(s.equity_stats.max_drawdown_pct, cfg.global_drawdown_pct)
    THEN [ s EXCEPT !.mode = HALT ]
    ELSE s

DailyLossBreached(s, cfg) == s.session_stats.daily_pnl <= -max_daily_loss_abs(cfg)
ConsecutiveBreached(s, cfg) ==
  s.session_stats.consecutive_losses >= cfg.max_consecutive_losses_for_cooldown
DrawdownBreached(s, cfg) ==
  RatioGeq(s.equity_stats.max_drawdown_pct, cfg.global_drawdown_pct)

\* variant: the daily counters are never reset
accumulate_no_roll(s, cfg, tr) ==
  LET s1 == [ s EXCEPT
                !.session_stats.trading_day = tr.day,
                !.session_stats.daily_pnl = @ + net_pnl(tr),
                !.session_stats.daily_trades = @ + 1,
                !.session_stats.consecutive_losses = IF is_loss(tr) THEN @ + 1 ELSE 0,
                !.equity_stats.cumulative_pnl = @ + net_pnl(tr) ]
  IN update_drawdown_metrics(s1, cfg)

\* the statistics part of on_trade_closed (lines 85-95)
accumulate(s, cfg, tr) ==
  LET s0 == maybe_roll_daily_stats(s, tr.day)
      s1 == [ s0 EXCEPT
                !.session_stats.daily_pnl = @ + net_pnl(tr),
                !.session_stats.daily_trades = @ + 1,
                !.session_stats.consecutive_losses = IF is_loss(tr) THEN @ + 1 ELSE 0,
                !.equity_stats.cumulative_pnl = @ + net_pnl(tr) ]
  IN update_drawdown_metrics(s1, cfg)

\* variant: the consecutive-loss trigger is an "if" of its own
on_trade_closed_both_triggers(s, cfg, t, tr) ==
  LET s1 == accumulate(s, cfg, tr)
      s2 == IF DailyLossBreached(s1, cfg)
              THEN trigger_daily_loss_cooldown(s1, cfg, t)
              ELSE s1
      s3 == IF ConsecutiveBreached(s2, cfg)
              THEN trigger_short_cooldown(s2, cfg, t)
              ELSE s2
      s4 == evaluate_global_drawdown(s3, cfg)
  IN evaluate_limited_exit(s4, cfg)

\* variant: the drawdown check runs before the cooldown triggers
on_trade_closed_dd_first(s, cfg, t, tr) ==
  LET s1 == accumulate(s, cfg, tr)
      s2 == evaluate_global_drawdown(s1, cfg)
      s3 == IF DailyLossBreached(s2, cfg)
              THEN trigger_daily_loss_cooldown(s2, cfg, t)
              ELSE IF ConsecutiveBreached(s2, cfg)
                     THEN trigger_short_cooldown(s2, cfg, t)
                     ELSE s2
  IN evaluate_limited_exit(s3, cfg)

on_trade_closed(s, cfg, t, tr) ==
  LET s1 == accumulate(s, cfg, tr)
      s2 == IF DailyLossBreached(s1, cfg)
              THEN trigger_daily_loss_cooldown(s1, cfg, t)
              ELSE IF ConsecutiveBreached(s1, cfg)
                     THEN trigger_short_cooldown(s1, cfg, t)
                     ELSE s1
      s3 == evaluate_global_drawdown(s2, cfg)
  IN evaluate_limited_exit(s3, cfg)

\* variant: LIMITED is treated as a blocking mode
can_trade_now_blocks_limited(s) ==
  IF s.mode = HALT THEN <<FALSE, Some(HALT)>>
  ELSE IF s.mode = COOLDOWN THEN <<FALSE, Some(COOLDOWN)>>
  ELSE IF s.mode = LIMITED THEN <<FALSE, Some(LIMITED)>>
  ELSE <<TRUE, None>>

can_trade_now(s) ==
  IF s.mode = HALT THEN <<FALSE, Some(HALT)>>
  ELSE IF s.mode = COOLDOWN THEN <<FALSE, Some(COOLDOWN)>>
  ELSE <<TRUE, None>>

\* current_cooldown_countdown on an already timer-evaluated state:
\* <<type, minutes left>>
cooldown_countdown(s, t) ==
  IF s.mode # COOLDOWN \/ ~IsSome(s.cooldown_until)
    THEN <<None, 0>>
    ELSE << Some(IF s.next_mode_after_cooldown = LIMITED THEN "LONG" ELSE "SHORT"),
            Max(0, Val(s.cooldown_until) - t) >>

(* -------------------------- export / hydrate --------------------------- *)
\* datetime.isoformat() / datetime.fromisoformat() on an aware UTC datetime
isoformat(t) == [ iso |-> t ]
fromisoformat(str) == str.iso

export_state(s) ==
  [ mode |-> s.mode,
    session_stats |-> s.session_stats,
    equity_stats |-> s.equity_stats,
    cooldown_until |-> IF IsSome(s.cooldown_until)
                         THEN Some(isoformat(Val(s.cooldown_until))) ELSE None,
    next_mode_after_cooldown |-> s.next_mode_after_cooldown,
    limited_until |-> IF IsSome(s.limited_until)
                        THEN Some(isoformat(Val(s.limited_until))) ELSE None,
    limited_exit_equity |-> s.limited_exit_equity,
    cooldown_counters |-> s.cooldown_counters ]

\* variant: next_mode_after_cooldown is not restored
hydrate_default_next(s0, payload) ==
  [ mode |-> payload.mode,
    session_stats |-> payload.session_stats,
    equity_stats |-> payload.equity_stats,
    cooldown_until |-> IF IsSome(payload.cooldown_until)
                         THEN Some(fromisoformat(Val(payload.cooldown_until)))
                         ELSE s0.cooldown_until,
    next_mode_after_cooldown |-> s0.next_mode_after_cooldown,
    limited_until |-> IF IsSome(payload.limited_until)
                        THEN Some(fromisoformat(Val(payload.limited_until)))
                        ELSE s0.limited_until,
    limited_exit_equity |-> payload.limited_exit_equity,
    cooldown_counters |-> [ short |-> payload.cooldown_counters.short,
                            long |-> payload.cooldown_counters.long ] ]

\* _hydrate applied to the freshly constructed state s0
hydrate(s0, payload) ==
  [ mode |-> payload.mode,
    session_stats |-> payload.session_stats,
    equity_stats |-> payload.equity_stats,
    cooldown_until |-> IF IsSome(payload.cooldown_until)
                         THEN Some(fromisoformat(Val(payload.cooldown_until)))
                         ELSE s0.cooldown_until,
    next_mode_after_cooldown |-> payload.next_mode_after_cooldown,
    limited_until |-> IF IsSome(payload.limited_until)
                        THEN Some(fromisoformat(Val(payload.limited_until)))
                        ELSE s0.limited_until,
    limited_exit_equity |-> payload.limited_exit_equity,
    cooldown_counters |-> [ short |-> payload.cooldown_counters.short,
                            long |-> payload.cooldown_counters.long ] ]

\* StateManager(config, initial_state = payload, now_provider = clock at t)
Restore(cfg, t, payload) == hydrate(FreshState(cfg, t), payload)

(* ------------------------- exchange gateway ---------------------------- *)
MaxOrders == 3
MaxExecNow == 3

Prices == {11}
Sides == {"LONG", "SHORT"}

\* order identifiers as the executor sees them
OrderId(n) == <<"orderId", n>>
UnknownOrderId == <<"unknown">>
PositionIdx == <<"positionIdx", 0>>

FlatPosition == [ size |-> 0, side |-> "", entryPrice |-> 0, stopLoss |-> 0, takeProfit |-> 0 ]

\* BybitClient.get_position: result.list of the symbol (one-way mode: one row)
get_position(pos) == << pos >>

\* the position after a market order of the given side and quantity
apply_order(pos, side, qty, price, sl, tp) ==
  IF pos.size = 0
    THEN [ size |-> qty, side |-> side, entryPrice |-> price, stopLoss |-> sl, takeProfit |-> tp ]
  ELSE IF pos.side = side
    THEN [ pos EXCEPT !.size = @ + qty ]
  ELSE IF pos.size > qty
    THEN [ pos EXCEPT !.size = @ - qty ]
  ELSE IF pos.size = qty
    THEN FlatPosition
  ELSE [ size |-> qty - pos.size, side |-> side, entryPrice |-> price,
         stopLoss |-> 0, takeProfit |-> 0 ]

\* BybitClient.get_executions: the feed, from start_time on when it is given
\* ("if start_time": 0 is not sent)
get_executions(feed, start_time) ==
  IF start_time # 0
    THEN SelectSeq(feed, LAMBDA row : row.execTime >= start_time)
    ELSE feed

(* --------------------------- OrderExecutor ----------------------------- *)
FetchAttempts == 5

\* _fetch_fill over the feed snapshots of its successive queries: price and
\* time of the first row of the order, and the number of queries issued
RECURSIVE fetch_fill_from(_, _, _)
fetch_fill_from(polls, order_id, i) ==
  IF i > Len(polls)
    THEN [ price |-> None, exec_time |-> None, queries |-> Len(polls) ]
    ELSE LET hits == { k \in DOMAIN polls[i] : polls[i][k].orderId = order_id }
         IN IF hits # {}
              THEN LET k == CHOOSE k \in hits : \A j \in hits : k <= j
                   IN [ price |-> Some(polls[i][k].execPrice),
                        exec_time |-> Some(polls[i][k].execTime),
                        queries |-> i ]
              ELSE fetch_fill_from(polls, order_id, i + 1)

\* variant: every query is issued before the result is returned
fetch_fill_all_queries(polls, order_id) ==
  [ fetch_fill_from(polls, order_id, 1) EXCEPT !.queries = Len(polls) ]

fetch_fill(polls, order_id) == fetch_fill_from(polls, order_id, 1)

\* sorted(executions, key = execTime): stable
RECURSIVE sorted_execs(_)
sorted_execs(rows) ==
  IF rows = <<>> THEN <<>>
  ELSE LET k == CHOOSE k \in DOMAIN rows :
                  /\ \A j \in DOMAIN rows : rows[k].execTime <= rows[j].execTime
                  /\ \A j \in 1..(k - 1) : rows[j].execTime # rows[k].execTime
           rest == [ j \in 1..(Len(rows) - 1) |-> IF j < k THEN rows[j] ELSE rows[j + 1] ]
       IN << rows[k] >> \o sorted_execs(rest)

closing_side(trade) == IF trade.side = "LONG" THEN "Sell" ELSE "Buy"

\* variant: the response is scanned in the order received, not by time
find_exit_fill_unsorted(trade, rows) ==
  LET hits == { k \in DOMAIN rows : /\ rows[k].execTime > trade.last_exec_time_ms
                                    /\ rows[k].side = closing_side(trade) }
  IN IF hits = {}
       THEN [ price |-> None, trade |-> trade, row |-> None ]
       ELSE LET k == CHOOSE k \in hits : \A j \in hits : k <= j
            IN [ price |-> Some(rows[k].execPrice),
                 trade |-> [ trade EXCEPT !.last_exec_time_ms = rows[k].execTime ],
                 row |-> Some(rows[k]) ]

\* variant: the side of the execution is not looked at
find_exit_fill_any_side(trade, rows) ==
  LET srt  == sorted_execs(rows)
      hits == { k \in DOMAIN srt : srt[k].execTime > trade.last_exec_time_ms }
  IN IF hits = {}
       THEN [ price |-> None, trade |-> trade, row |-> None ]
       ELSE LET k == CHOOSE k \in hits : \A j \in hits : k <= j
            IN [ price |-> Some(srt[k].execPrice),
                 trade |-> [ trade EXCEPT !.last_exec_time_ms = srt[k].execTime ],
                 row |-> Some(srt[k]) ]

\* _find_exit_fill on the response rows: the exit price, the trade with its
\* watermark advanced, and the row the price was read from
find_exit_fill(trade, rows) ==
  LET srt  == sorted_execs(rows)
      hits == { k \in DOMAIN srt : /\ srt[k].execTime > trade.last_exec_time_ms
                                   /\ srt[k].side = closing_side(trade) }
  IN IF hits = {}
       THEN [ price |-> None, trade |-> trade, row |-> None ]
       ELSE LET k == CHOOSE k \in hits : \A j \in hits : k <= j
            IN [ price |-> Some(srt[k].execPrice),
                 trade |-> [ trade EXCEPT !.last_exec_time_ms = srt[k].execTime ],
                 row |-> Some(srt[k]) ]

open_size(rows) ==
  LET RECURSIVE sum(_)
      sum(i) == IF i > Len(rows) THEN 0 ELSE rows[i].size + sum(i + 1)
  IN sum(1)

\* variant: the early return on an open position is missing
poll_trade_close_no_early_return(slot, trade, rows, feed) ==
  LET found == find_exit_fill(trade, get_executions(feed, trade.entry_exec_time_ms))
  IN [ slot |-> None, trade |-> found.trade, result |-> found.price,
       open_size |-> open_size(rows), queries |-> 1, fill_found |-> IsSome(found.price),
       row |-> found.row ]

\* poll_trade_close(trade) given the position rows and the feed the gateway
\* answers with: the new slot, the trade object, the returned price
poll_trade_close(slot, trade, rows, feed) ==
  IF open_size(rows) > 0
    THEN [ slot |-> slot, trade |-> trade, result |-> None,
           open_size |-> open_size(rows), queries |-> 0, fill_found |-> FALSE,
           row |-> None ]
    ELSE LET found == find_exit_fill(trade, get_executions(feed, trade.entry_exec_time_ms))
         IN [ slot |-> None, trade |-> found.trade, result |-> found.price,
              open_size |-> 0, queries |-> 1, fill_found |-> IsSome(found.price),
              row |-> found.row ]

\* close_trade on a set slot, after the closing order was submitted and the
\* fill discovery returned fill: the new slot, the trade object, the
\* returned price
close_trade(slot, fill) ==
  [ slot |-> None,
    trade |-> IF IsSome(fill.exec_time) /\ Val(fill.exec_time) # 0
                THEN [ Val(slot) EXCEPT !.last_exec_time_ms = Val(fill.exec_time) ]
                ELSE Val(slot),
    result |-> fill.price ]

\* variant: the last open row of the list is taken
refresh_active_trade_last_row(slot, rows, t) ==
  LET open == { k \in DOMAIN rows : rows[k].size # 0 }
  IN IF open = {}
       THEN None
       ELSE LET k == CHOOSE k \in open : \A j \in open : k >= j
            IN Some([ side |-> IF rows[k].side = "Buy" THEN "LONG" ELSE "SHORT",
                      qty |-> rows[k].size,
                      entry_price |-> rows[k].entryPrice,
                      sl_price |-> rows[k].stopLoss,
                      tp_price |-> rows[k].takeProfit,
                      opened_at |-> t,
                      entry_order_id |-> PositionIdx,
                      time_stop_minutes |-> IF IsSome(slot) THEN Val(slot).time_stop_minutes ELSE 0,
                      entry_exec_time_ms |-> t,
                      last_exec_time_ms |-> t ])

\* refresh_active_trade on the position rows at clock t
refresh_active_trade(slot, rows, t) ==
  LET open == { k \in DOMAIN rows : rows[k].size # 0 }
  IN IF open = {}
       THEN None
       ELSE LET k == CHOOSE k \in open : \A j \in open : k <= j
            IN Some([ side |-> IF rows[k].side = "Buy" THEN "LONG" ELSE "SHORT",
                      qty |-> rows[k].size,
                      entry_price |-> rows[k].entryPrice,
                      sl_price |-> rows[k].stopLoss,
                      tp_price |-> rows[k].takeProfit,
                      opened_at |-> t,
                      entry_order_id |-> PositionIdx,
                      time_stop_minutes |-> IF IsSome(slot) THEN Val(slot).time_stop_minutes ELSE 0,
                      entry_exec_time_ms |-> t,
                      last_exec_time_ms |-> t ])

\* variant: the observed fill price is ignored
new_trade_requested_price(side, qty, entry_price, sl, tp, tsm, order_id, fill, t) ==
  [ side |-> side,
    qty |-> qty,
    entry_price |-> entry_price,
    sl_price |-> sl,
    tp_price |-> tp,
    opened_at |-> t,
    entry_order_id |-> order_id,
    time_stop_minutes |-> tsm,
    entry_exec_time_ms |-> IF IsSome(fill.exec_time) /\ Val(fill.exec_time) # 0
                             THEN Val(fill.exec_time) ELSE t,
    last_exec_time_ms |-> IF IsSome(fill.exec_time) /\ Val(fill.exec_time) # 0
                            THEN Val(fill.exec_time) ELSE t ]

\* the ActiveTrade open_trade builds
new_trade(side, qty, entry_price, sl, tp, tsm, order_id, fill, t) ==
  [ side |-> side,
    qty |-> qty,
    entry_price |-> IF IsSome(fill.price) /\ Val(fill.price) # 0
                      THEN Val(fill.price) ELSE entry_price,
    sl_price |-> sl,
    tp_price |-> tp,
    opened_at |-> t,
    entry_order_id |-> order_id,
    time_stop_minutes |-> tsm,
    entry_exec_time_ms |-> IF IsSome(fill.exec_time) /\ Val(fill.exec_time) # 0
                             THEN Val(fill.exec_time) ELSE t,
    last_exec_time_ms |-> IF IsSome(fill.exec_time) /\ Val(fill.exec_time) # 0
                            THEN Val(fill.exec_time) ELSE t ]

\* variant: the "time_stop_minutes <= 0" guard is missing
is_time_stop_reached_no_guard(trade, t) ==
  t >= trade.opened_at + trade.time_stop_minutes

\* ActiveTrade.is_time_stop_reached(now)
is_time_stop_reached(trade, t) ==
  IF trade.time_stop_minutes <= 0
    THEN FALSE
    ELSE t >= trade.opened_at + trade.time_stop_minutes

\* what the last step did: which call (or "tick" / "gateway" for a step of
\* the environment), whether it raised, the open
\* size the position query reported, whether a closing order was accepted,
\* whether a fill was found, how many execution queries it issued, the
\* price it returned, and the watermark (last_exec_time_ms) of the trade
\* object it worked on as the call leaves it
NoObs == [ op |-> "init", raised |-> FALSE, open_size |-> None, order_sent |-> FALSE,
           fill_found |-> FALSE, queries |-> 0, result |-> None, watermark |-> None,
           visible_at |-> 0 ]

(* ------------------------- driver-side inputs -------------------------- *)
\* MarketSnapshot fields read by the components modelled here; the VWAP
\* distance is a percentage kept in tenths of a percent
NoSnapshot == [ price |-> 0, atr |-> 0, vwap_distance_pct |-> 0 ]

\* one RiskManager.evaluate call: instrument, arguments, and what came back
\* (raised is None or Some(exception), result is None or Some(RiskResult))
NoRiskCall ==
  [ min_qty |-> <<0, 1>>, qty_step |-> <<1, 1>>, entry_price |-> 0, sl_price |-> 0,
    tp_price |-> 0, raised |-> None, result |-> None ]

\* the driver between two cycles, holding no trade
DrvIdle ==
  /\ pc = "cycle"
  /\ held_trade = None
  /\ snapshot = NoSnapshot
  /\ in_rows = <<>>
  /\ risk_call = NoRiskCall
  /\ returned = {}

\* no snapshot file, no cycle completed, no HALT seen
PstIdle ==
  /\ disk = <<>>
  /\ cycle_counter = 0
  /\ halt_seen = FALSE

\* one webhook request: the action, the registry key, whether an order was
\* sent to the exchange and whether it succeeded, and the response status
NoHookObs ==
  [ action |-> "", key |-> <<>>, order_sent |-> FALSE, success |-> FALSE,
    status |-> "" ]

\* the webhook service with an empty registry
HookIdle ==
  /\ ACTIVE_POSITIONS = <<>>
  /\ hook_obs = NoHookObs
  /\ hook_hist = <<>>
  /\ hook_requests = 0

(* ------------------------------ actions -------------------------------- *)
\* what the last call returned; pre_mode is the mode the call started from,
\* trade the TradeResult handed to on_trade_closed
NoRet == [ allowed |-> TRUE, reason |-> None, mode |-> NORMAL,
           ctype |-> None, minutes |-> 0, pre_mode |-> NORMAL, trade |-> None ]

Init ==
  /\ config \in ConfigSet
  /\ now = 0
  /\ sm = FreshState(config, now)
  /\ lastOp = "init"
  /\ ret = NoRet
  /\ trades_fed = 0
  /\ gw_position = FlatPosition
  /\ gw_executions = <<>>
  /\ gw_pending = <<>>
  /\ gw_orders = 0
  /\ active_trade = None
  /\ ex_obs = NoObs
  /\ DrvIdle
  /\ PstIdle
  /\ HookIdle

Tick ==
  /\ now < MaxNow
  /\ now' = now + 1
  /\ lastOp' = "tick"
  /\ UNCHANGED <<config, sm, ret, trades_fed, gwvars, exvars>>
  /\ UNCHANGED drvvars
  /\ UNCHANGED <<pstvars, hookvars>>

OnTradeClosed ==
  /\ trades_fed < MaxTrades
  /\ \E tr \in TradeResults :
       /\ sm' = on_trade_closed(sm, config, now, tr)
       /\ ret' = [ NoRet EXCEPT !.mode = sm'.mode, !.pre_mode = sm.mode,
                                !.trade = Some(tr) ]
  /\ trades_fed' = trades_fed + 1
  /\ lastOp' = "on_trade_closed"
  /\ UNCHANGED <<config, now, gwvars, exvars>>
  /\ UNCHANGED drvvars
  /\ UNCHANGED <<pstvars, hookvars>>

CanTradeNow ==
  /\ sm' = evaluate_timers(sm, now)
  /\ ret' = [ NoRet EXCEPT !.allowed = can_trade_now(sm')[1],
                           !.reason = can_trade_now(sm')[2],
                           !.mode = sm'.mode, !.pre_mode = sm.mode ]
  /\ lastOp' = "can_trade_now"
  /\ UNCHANGED <<config, now, trades_fed, gwvars, exvars>>
  /\ UNCHANGED drvvars
  /\ UNCHANGED <<pstvars, hookvars>>

CurrentMode ==
  /\ sm' = evaluate_timers(sm, now)
  /\ ret' = [ NoRet EXCEPT !.mode = sm'.mode, !.pre_mode = sm.mode ]
  /\ lastOp' = "current_mode"
  /\ UNCHANGED <<config, now, trades_fed, gwvars, exvars>>
  /\ UNCHANGED drvvars
  /\ UNCHANGED <<pstvars, hookvars>>

CurrentCooldownCountdown ==
  /\ sm' = evaluate_timers(sm, now)
  /\ ret' = [ NoRet EXCEPT !.ctype = cooldown_countdown(sm', now)[1],
                           !.minutes = cooldown_countdown(sm', now)[2],
                           !.mode = sm'.mode, !.pre_mode = sm.mode ]
  /\ lastOp' = "current_cooldown_countdown"
  /\ UNCHANGED <<config, now, trades_fed, gwvars, exvars>>
  /\ UNCHANGED drvvars
  /\ UNCHANGED <<pstvars, hookvars>>

\* export_state: the snapshot export_state(sm) of the fields as they are,
\* no timer evaluation
ExportState ==
  /\ ret' = [ NoRet EXCEPT !.mode = export_state(sm).mode, !.pre_mode = sm.mode ]
  /\ lastOp' = "export_state"
  /\ UNCHANGED <<config, now, sm, trades_fed, gwvars, exvars>>
  /\ UNCHANGED drvvars
  /\ UNCHANGED <<pstvars, hookvars>>

Next ==
  \/ Tick
  \/ OnTradeClosed
  \/ CanTradeNow
  \/ CurrentMode
  \/ CurrentCooldownCountdown
  \/ ExportState

Spec == Init /\ [][Next]_vars

(* ------------------- OrderExecutor and gateway actions ------------------ *)
\* the gateway and executor start empty, at a positive epoch time
InitExec ==
  /\ config = CHOOSE c \in ConfigSet : TRUE
  /\ now = 1
  /\ sm = FreshState(config, now)
  /\ lastOp = "init"
  /\ ret = NoRet
  /\ trades_fed = 0
  /\ gw_position = FlatPosition
  /\ gw_executions = <<>>
  /\ gw_pending = <<>>
  /\ gw_orders = 0
  /\ active_trade = None
  /\ ex_obs = NoObs
  /\ DrvIdle
  /\ PstIdle
  /\ HookIdle

\* trade intents handed to open_trade
Intents ==
  { [ side |-> "LONG", qty |-> 1, entry_price |-> 10, sl_price |-> 9, tp_price |-> 12,
      time_stop_minutes |-> 0 ],
    [ side |-> "SHORT", qty |-> 1, entry_price |-> 10, sl_price |-> 12, tp_price |-> 9,
      time_stop_minutes |-> 2 ] }

Execution(side, price) ==
  [ orderId |-> OrderId(gw_orders + 1), side |-> side, execTime |-> now, execPrice |-> price ]

\* the feed snapshots seen by the successive queries of one fill discovery
\* when row becomes visible at query k (k > FetchAttempts: not in time)
Polls(row, k) ==
  [ i \in 1..FetchAttempts |-> IF i >= k THEN Append(gw_executions, row) ELSE gw_executions ]

\* the gateway accepts a market order: the position moves, the execution is
\* published in the feed at query k of the fill discovery or later
Accept(side, qty, row, k, sl, tp) ==
  /\ gw_orders < MaxOrders
  /\ gw_orders' = gw_orders + 1
  /\ gw_position' = apply_order(gw_position, side, qty, row.execPrice, sl, tp)
  /\ IF k <= FetchAttempts
       THEN gw_executions' = Append(gw_executions, row) /\ UNCHANGED gw_pending
       ELSE gw_pending' = Append(gw_pending, row) /\ UNCHANGED gw_executions

\* the query of a fill discovery at which the execution becomes visible:
\* the first, the last, or none of them
VisibleAt == {1, FetchAttempts, FetchAttempts + 1}

ExTick ==
  /\ now < MaxExecNow
  /\ now' = now + 1
  /\ ex_obs' = [ NoObs EXCEPT !.op = "tick" ]
  /\ UNCHANGED <<config, sm, lastOp, ret, trades_fed, gwvars, active_trade>>
  /\ UNCHANGED drvvars
  /\ UNCHANGED <<pstvars, hookvars>>

\* the venue fills the attached stop or target: the position goes flat
GwProtectiveFill ==
  /\ gw_position.size > 0
  /\ gw_orders < MaxOrders
  /\ \E price \in {gw_position.stopLoss, gw_position.takeProfit}, visible \in BOOLEAN :
       LET row == Execution(IF gw_position.side = "Buy" THEN "Sell" ELSE "Buy", price)
       IN IF visible
            THEN gw_executions' = Append(gw_executions, row) /\ UNCHANGED gw_pending
            ELSE gw_pending' = Append(gw_pending, row) /\ UNCHANGED gw_executions
  /\ gw_position' = FlatPosition
  /\ gw_orders' = gw_orders + 1
  /\ ex_obs' = [ NoObs EXCEPT !.op = "gateway" ]
  /\ UNCHANGED <<smvars, active_trade>>
  /\ UNCHANGED drvvars
  /\ UNCHANGED <<pstvars, hookvars>>

GwPublish ==
  /\ gw_pending # <<>>
  /\ gw_executions' = Append(gw_executions, Head(gw_pending))
  /\ gw_pending' = Tail(gw_pending)
  /\ ex_obs' = [ NoObs EXCEPT !.op = "gateway" ]
  /\ UNCHANGED <<smvars, gw_position, gw_orders, active_trade>>
  /\ UNCHANGED drvvars
  /\ UNCHANGED <<pstvars, hookvars>>

\* open_trade: create_order raises | the venue answers without an order id
\* (logical error, not checked by the executor) | the order is accepted
OpenTradeRaises ==
  /\ ex_obs' = [ NoObs EXCEPT !.op = "open_trade", !.raised = TRUE ]
  /\ UNCHANGED <<smvars, gwvars, active_trade>>
  /\ UNCHANGED drvvars
  /\ UNCHANGED <<pstvars, hookvars>>

OpenTradeRejected ==
  /\ \E in \in Intents :
       LET fill == fetch_fill([ i \in 1..FetchAttempts |-> gw_executions ], UnknownOrderId)
       IN /\ active_trade' = Some(new_trade(in.side, in.qty, in.entry_price, in.sl_price,
                                            in.tp_price, in.time_stop_minutes,
                                            UnknownOrderId, fill, now))
          /\ ex_obs' = [ NoObs EXCEPT !.op = "open_trade", !.queries = fill.queries,
                                      !.fill_found = IsSome(fill.price) ]
  /\ UNCHANGED <<smvars, gwvars>>
  /\ UNCHANGED drvvars
  /\ UNCHANGED <<pstvars, hookvars>>

OpenTradeAccepted ==
  /\ \E in \in Intents, price \in Prices, k \in VisibleAt :
       LET side == IF in.side = "LONG" THEN "Buy" ELSE "Sell"
           row  == Execution(side, price)
           fill == fetch_fill(Polls(row, k), row.orderId)
       IN /\ Accept(side, in.qty, row, k, in.sl_price, in.tp_price)
          /\ active_trade' = Some(new_trade(in.side, in.qty, in.entry_price, in.sl_price,
                                            in.tp_price, in.time_stop_minutes,
                                            row.orderId, fill, now))
          /\ ex_obs' = [ NoObs EXCEPT !.op = "open_trade", !.order_sent = TRUE,
                                      !.queries = fill.queries,
                                      !.fill_found = IsSome(fill.price) ]
  /\ UNCHANGED <<smvars>>
  /\ UNCHANGED drvvars
  /\ UNCHANGED <<pstvars, hookvars>>

\* close_trade with an empty slot returns None at once
CloseTradeNoTrade ==
  /\ active_trade = None
  /\ ex_obs' = [ NoObs EXCEPT !.op = "close_trade" ]
  /\ UNCHANGED <<smvars, gwvars, active_trade>>
  /\ UNCHANGED drvvars
  /\ UNCHANGED <<pstvars, hookvars>>

CloseTradeRaises ==
  /\ IsSome(active_trade)
  /\ ex_obs' = [ NoObs EXCEPT !.op = "close_trade", !.raised = TRUE ]
  /\ UNCHANGED <<smvars, gwvars, active_trade>>
  /\ UNCHANGED drvvars
  /\ UNCHANGED <<pstvars, hookvars>>

CloseTradeRejected ==
  /\ IsSome(active_trade)
  /\ LET fill == fetch_fill([ i \in 1..FetchAttempts |-> gw_executions ], UnknownOrderId)
         out  == close_trade(active_trade, fill)
     IN /\ active_trade' = out.slot
        /\ ex_obs' = [ NoObs EXCEPT !.op = "close_trade", !.queries = fill.queries,
                                    !.fill_found = IsSome(fill.price),
                                    !.result = out.result,
                                    !.watermark = Some(out.trade.last_exec_time_ms) ]
  /\ UNCHANGED <<smvars, gwvars>>
  /\ UNCHANGED drvvars
  /\ UNCHANGED <<pstvars, hookvars>>

CloseTradeAccepted ==
  /\ IsSome(active_trade)
  /\ \E price \in Prices, k \in VisibleAt :
       LET trade == Val(active_trade)
           row   == Execution(closing_side(trade), price)
           fill  == fetch_fill(Polls(row, k), row.orderId)
           out   == close_trade(active_trade, fill)
       IN /\ Accept(closing_side(trade), trade.qty, row, k, 0, 0)
          /\ active_trade' = out.slot
            /\ ex_obs' = [ NoObs EXCEPT !.op = "close_trade", !.order_sent = TRUE,
                                      !.queries = fill.queries,
                                      !.fill_found = IsSome(fill.price),
                                      !.result = out.result,
                                    !.watermark = Some(out.trade.last_exec_time_ms) ]
  /\ UNCHANGED smvars
  /\ UNCHANGED drvvars
  /\ UNCHANGED <<pstvars, hookvars>>

\* poll_trade_close(trade) with the trade held in the slot; either gateway
\* query may raise
PollTradeCloseRaises ==
  /\ IsSome(active_trade)
  /\ \/ ex_obs' = [ NoObs EXCEPT !.op = "poll_trade_close", !.raised = TRUE ]
     \/ /\ open_size(get_position(gw_position)) = 0
        /\ ex_obs' = [ NoObs EXCEPT !.op = "poll_trade_close", !.raised = TRUE,
                                    !.open_size = Some(0), !.queries = 1 ]
  /\ UNCHANGED <<smvars, gwvars, active_trade>>
  /\ UNCHANGED drvvars
  /\ UNCHANGED <<pstvars, hookvars>>

PollTradeClose ==
  /\ IsSome(active_trade)
  /\ LET out == poll_trade_close(active_trade, Val(active_trade),
                                 get_position(gw_position), gw_executions)
     IN /\ active_trade' = IF IsSome(out.slot) THEN Some(out.trade) ELSE None
        /\ ex_obs' = [ NoObs EXCEPT !.op = "poll_trade_close",
                                    !.open_size = Some(out.open_size),
                                    !.queries = out.queries,
                                    !.fill_found = out.fill_found,
                                    !.result = out.result,
                                    !.watermark = Some(out.trade.last_exec_time_ms) ]
  /\ UNCHANGED <<smvars, gwvars>>
  /\ UNCHANGED drvvars
  /\ UNCHANGED <<pstvars, hookvars>>

RefreshActiveTradeRaises ==
  /\ ex_obs' = [ NoObs EXCEPT !.op = "refresh_active_trade", !.raised = TRUE ]
  /\ UNCHANGED <<smvars, gwvars, active_trade>>
  /\ UNCHANGED drvvars
  /\ UNCHANGED <<pstvars, hookvars>>

RefreshActiveTrade ==
  /\ active_trade' = refresh_active_trade(active_trade, get_position(gw_position), now)
  /\ ex_obs' = [ NoObs EXCEPT !.op = "refresh_active_trade",
                              !.open_size = Some(open_size(get_position(gw_position))) ]
  /\ UNCHANGED <<smvars, gwvars>>
  /\ UNCHANGED drvvars
  /\ UNCHANGED <<pstvars, hookvars>>

NextExec ==
  \/ ExTick
  \/ GwProtectiveFill
  \/ GwPublish
  \/ OpenTradeRaises
  \/ OpenTradeRejected
  \/ OpenTradeAccepted
  \/ CloseTradeNoTrade
  \/ CloseTradeRaises
  \/ CloseTradeRejected
  \/ CloseTradeAccepted
  \/ PollTradeCloseRaises
  \/ PollTradeClose
  \/ RefreshActiveTradeRaises
  \/ RefreshActiveTrade

SpecExec == InitExec /\ [][NextExec]_vars

(* ----------------------------- LimitsChecker ---------------------------- *)
\* abs(snapshot.vwap_distance_pct) > 1.5, in tenths of a percent
VwapLimitTenths == 15

Abs(x) == IF x < 0 THEN -x ELSE x

LimitCheckResult(s, allow, reason) ==
  [ sm |-> s, allow_trade |-> allow, reason |-> reason ]

\* variant: the daily-loss guard does not exempt LIMITED
limits_evaluate_guard_in_limited(s, cfg, t, snap) ==
  LET s1   == evaluate_timers(s, t)
      gate == can_trade_now(s1)
      s2   == evaluate_timers(s1, t)
  IN IF ~gate[1] THEN LimitCheckResult(s1, FALSE, gate[2])
     ELSE IF s1.session_stats.daily_pnl <= -max_daily_loss_abs(cfg)
       THEN LimitCheckResult(s2, FALSE, Some("DAILY_LOSS_LIMIT"))
     ELSE IF s1.session_stats.daily_trades >= cfg.max_daily_trades
       THEN LimitCheckResult(s2, FALSE, Some("DAILY_TRADE_LIMIT"))
     ELSE IF snap.atr < cfg.min_atr
       THEN LimitCheckResult(s2, FALSE, Some("MARKET_TOO_DEAD"))
     ELSE IF Abs(snap.vwap_distance_pct) > VwapLimitTenths
       THEN LimitCheckResult(s2, FALSE, Some("EXTENDED_FROM_VWAP"))
     ELSE LimitCheckResult(s2, TRUE, None)

\* variant: a daily-loss block also starts the long cooldown
limits_evaluate_triggers_cooldown(s, cfg, t, snap) ==
  LET s1   == evaluate_timers(s, t)
      gate == can_trade_now(s1)
      s2   == evaluate_timers(s1, t)
  IN IF ~gate[1] THEN LimitCheckResult(s1, FALSE, gate[2])
     ELSE IF s1.session_stats.daily_pnl <= -max_daily_loss_abs(cfg) /\ s2.mode # LIMITED
       THEN LimitCheckResult(trigger_daily_loss_cooldown(s2, cfg, t), FALSE,
                             Some("DAILY_LOSS_LIMIT"))
     ELSE IF s1.session_stats.daily_trades >= cfg.max_daily_trades
       THEN LimitCheckResult(s2, FALSE, Some("DAILY_TRADE_LIMIT"))
     ELSE IF snap.atr < cfg.min_atr
       THEN LimitCheckResult(s2, FALSE, Some("MARKET_TOO_DEAD"))
     ELSE IF Abs(snap.vwap_distance_pct) > VwapLimitTenths
       THEN LimitCheckResult(s2, FALSE, Some("EXTENDED_FROM_VWAP"))
     ELSE LimitCheckResult(s2, TRUE, None)

\* variant: no daily trade-count guard
limits_evaluate_no_trade_guard(s, cfg, t, snap) ==
  LET s1   == evaluate_timers(s, t)
      gate == can_trade_now(s1)
      s2   == evaluate_timers(s1, t)
  IN IF ~gate[1] THEN LimitCheckResult(s1, FALSE, gate[2])
     ELSE IF s1.session_stats.daily_pnl <= -max_daily_loss_abs(cfg) /\ s2.mode # LIMITED
       THEN LimitCheckResult(s2, FALSE, Some("DAILY_LOSS_LIMIT"))
     ELSE IF snap.atr < cfg.min_atr
       THEN LimitCheckResult(s2, FALSE, Some("MARKET_TOO_DEAD"))
     ELSE IF Abs(snap.vwap_distance_pct) > VwapLimitTenths
       THEN LimitCheckResult(s2, FALSE, Some("EXTENDED_FROM_VWAP"))
     ELSE LimitCheckResult(s2, TRUE, None)

\* LimitsChecker.evaluate(snapshot) at time t: can_trade_now() and
\* current_mode() each run the lazy timer evaluation on the state machine;
\* stats is the session_stats object read between the two
limits_evaluate(s, cfg, t, snap) ==
  LET s1   == evaluate_timers(s, t)
      gate == can_trade_now(s1)
      s2   == evaluate_timers(s1, t)
  IN IF ~gate[1] THEN LimitCheckResult(s1, FALSE, gate[2])
     ELSE IF s1.session_stats.daily_pnl <= -max_daily_loss_abs(cfg) /\ s2.mode # LIMITED
       THEN LimitCheckResult(s2, FALSE, Some("DAILY_LOSS_LIMIT"))
     ELSE IF s1.session_stats.daily_trades >= cfg.max_daily_trades
       THEN LimitCheckResult(s2, FALSE, Some("DAILY_TRADE_LIMIT"))
     ELSE IF snap.atr < cfg.min_atr
       THEN LimitCheckResult(s2, FALSE, Some("MARKET_TOO_DEAD"))
     ELSE IF Abs(snap.vwap_distance_pct) > VwapLimitTenths
       THEN LimitCheckResult(s2, FALSE, Some("EXTENDED_FROM_VWAP"))
     ELSE LimitCheckResult(s2, TRUE, None)

\* snapshots handed to evaluate: ATR below / at the minimum, VWAP distance
\* at the threshold and beyond it on either side
Snapshots == [ price : {10}, atr : {1, 2}, vwap_distance_pct : {-16, 15} ]

LimitsEvaluate ==
  /\ \E snap \in Snapshots :
       LET out == limits_evaluate(sm, config, now, snap)
       IN /\ sm' = out.sm
          /\ ret' = [ NoRet EXCEPT !.allowed = out.allow_trade, !.reason = out.reason,
                                   !.mode = out.sm.mode, !.pre_mode = sm.mode ]
          /\ snapshot' = snap
  /\ lastOp' = "limits_evaluate"
  /\ UNCHANGED <<config, now, trades_fed, gwvars, exvars, pc, held_trade, in_rows, risk_call, returned>>
  /\ UNCHANGED <<pstvars, hookvars>>

\* the TradeResult the driver builds when it finalizes a trade: no fees, the
\* timestamp is the time of the call
DriverResults(t) == [ pnl : {-5, 4}, fees : {0}, day : {current_day(t)} ]

\* the driver reports a finalized trade to the state machine
ReportTradeClosed ==
  /\ trades_fed < MaxTrades
  /\ \E tr \in DriverResults(now) :
       /\ sm' = on_trade_closed(sm, config, now, tr)
       /\ ret' = [ NoRet EXCEPT !.mode = sm'.mode, !.pre_mode = sm.mode,
                                !.trade = Some(tr) ]
  /\ trades_fed' = trades_fed + 1
  /\ lastOp' = "on_trade_closed"
  /\ UNCHANGED <<config, now, gwvars, exvars, drvvars>>
  /\ UNCHANGED <<pstvars, hookvars>>

NextLimits ==
  \/ Tick
  \/ ReportTradeClosed
  \/ LimitsEvaluate

SpecLimits == Init /\ [][NextLimits]_vars

(* ------------------------------ RiskManager ----------------------------- *)
\* prices are integers; amounts and quantities are exact rationals <<n, d>>
\* with d > 0 (the code computes them in binary floating point)
RatMul(p, q) == Ratio(p[1] * q[1], p[2] * q[2])
RatLess(p, q) == p[1] * q[2] < q[1] * p[2]

\* Python's round() of n/d (n >= 0, d > 0): to the nearest integer, a tie to
\* the even one
RoundHalfEven(n, d) ==
  LET q == n \div d
      r == n % d
  IN IF 2 * r < d THEN q
     ELSE IF 2 * r > d THEN q + 1
     ELSE IF q % 2 = 0 THEN q ELSE q + 1

\* int(round(1 / step))
precision_of(step) == RoundHalfEven(step[2], step[1])

\* RiskManager._apply_precision: int(qty * precision) / precision, which
\* divides by zero when round(1 / step) is 0
apply_precision(qty, step) ==
  LET precision == precision_of(step)
  IN IF precision = 0
       THEN [ raised |-> Some("ZeroDivisionError"), qty |-> qty ]
       ELSE [ raised |-> None,
              qty |-> Ratio((qty[1] * precision) \div qty[2], precision) ]

RiskResult(qty, entry_price, sl_price, tp_price, risk_amount) ==
  [ qty |-> qty, entry_price |-> entry_price, sl_price |-> sl_price,
    tp_price |-> tp_price, risk_amount |-> risk_amount ]

\* variant: the stop-distance test is strict, so a zero distance reaches the
\* division
risk_evaluate_strict_stop(cfg, min_qty, qty_step, entry_price, sl_price, tp_price) ==
  LET risk_amount   == RatMul(<<cfg.reference_account_size_usdt, 1>>, cfg.risk_per_trade_pct)
      stop_distance == Abs(entry_price - sl_price)
      raw           == Ratio(risk_amount[1], risk_amount[2] * stop_distance)
      floored       == apply_precision(raw, qty_step)
  IN IF stop_distance < 0
       THEN [ raised |-> Some("Stop distance must be positive"), result |-> None ]
     ELSE IF stop_distance = 0
       THEN [ raised |-> Some("ZeroDivisionError"), result |-> None ]
     ELSE IF IsSome(floored.raised)
       THEN [ raised |-> floored.raised, result |-> None ]
     ELSE IF RatLess(floored.qty, min_qty)
       THEN [ raised |-> Some("Position size below exchange minimum"), result |-> None ]
     ELSE [ raised |-> None,
            result |-> Some(RiskResult(floored.qty, entry_price, sl_price, tp_price,
                                       risk_amount)) ]

\* RiskManager.evaluate: [raised, result]
risk_evaluate(cfg, min_qty, qty_step, entry_price, sl_price, tp_price) ==
  LET risk_amount   == RatMul(<<cfg.reference_account_size_usdt, 1>>, cfg.risk_per_trade_pct)
      stop_distance == Abs(entry_price - sl_price)
      raw           == Ratio(risk_amount[1], risk_amount[2] * stop_distance)
      floored       == apply_precision(raw, qty_step)
  IN IF stop_distance <= 0
       THEN [ raised |-> Some("Stop distance must be positive"), result |-> None ]
     ELSE IF IsSome(floored.raised)
       THEN [ raised |-> floored.raised, result |-> None ]
     ELSE IF RatLess(floored.qty, min_qty)
       THEN [ raised |-> Some("Position size below exchange minimum"), result |-> None ]
     ELSE [ raised |-> None,
            result |-> Some(RiskResult(floored.qty, entry_price, sl_price, tp_price,
                                       risk_amount)) ]

\* instruments: the quantity steps of the repository's table (0.001, 0.1)
\* and other positive steps; min_qty is the step or one unit
QtySteps == { <<1, 1000>>, <<1, 10>>, <<1, 2>>, <<3, 10>>, <<1, 1>>, <<2, 1>> }
MinQtys(step) == { step, <<1, 1>> }

RiskConfigs ==
  { [ c EXCEPT !.reference_account_size_usdt = r, !.risk_per_trade_pct = p ] :
      c \in { CHOOSE c0 \in ConfigSet : TRUE },
      r \in {100, 1000}, p \in { <<1, 100>>, <<3, 100>> } }

EntryPrices == {100}
StopPrices == {97, 99, 100, 104}
TargetPrices == {100, 102}

InitRisk ==
  /\ config \in RiskConfigs
  /\ now = 0
  /\ sm = FreshState(config, now)
  /\ lastOp = "init"
  /\ ret = NoRet
  /\ trades_fed = 0
  /\ gw_position = FlatPosition
  /\ gw_executions = <<>>
  /\ gw_pending = <<>>
  /\ gw_orders = 0
  /\ active_trade = None
  /\ ex_obs = NoObs
  /\ pc = "cycle"
  /\ held_trade = None
  /\ snapshot = NoSnapshot
  /\ in_rows = <<>>
  /\ returned = {}
  /\ \E step \in QtySteps : \E mq \in MinQtys(step) :
       risk_call = [ NoRiskCall EXCEPT !.qty_step = step, !.min_qty = mq ]
  /\ PstIdle
  /\ HookIdle

RiskEvaluate ==
  /\ \E entry \in EntryPrices, sl \in StopPrices, tp \in TargetPrices :
       LET out == risk_evaluate(config, risk_call.min_qty, risk_call.qty_step, entry, sl, tp)
       IN risk_call' = [ risk_call EXCEPT !.entry_price = entry, !.sl_price = sl,
                                          !.tp_price = tp, !.raised = out.raised,
                                          !.result = out.result ]
  /\ lastOp' = "risk_evaluate"
  /\ UNCHANGED <<config, now, sm, ret, trades_fed, gwvars, exvars,
                 pc, held_trade, snapshot, in_rows, returned>>
  /\ UNCHANGED <<pstvars, hookvars>>

NextRisk == RiskEvaluate

SpecRisk == InitRisk /\ [][NextRisk]_vars

(* ------------- reconciliation against gateway responses ----------------- *)
\* The position list and the execution feed are inputs here: every list of
\* up to MaxRows rows (hedge-mode accounts report one row per side) and
\* every feed of up to MaxFeed executions with stamps 1..MaxStamp, in any
\* order.
MaxRows == 2
MaxFeed == 3
MaxStamp == 3

PositionRows ==
  { FlatPosition,
    [ size |-> 2, side |-> "Buy", entryPrice |-> 10, stopLoss |-> 9, takeProfit |-> 12 ],
    [ size |-> 1, side |-> "Sell", entryPrice |-> 11, stopLoss |-> 0, takeProfit |-> 8 ] }

PositionLists == UNION { [ 1..n -> PositionRows ] : n \in 0..MaxRows }

ExecSides == {"Buy", "Sell"}

\* executions of distinct orders, each with its own price
Feeds ==
  UNION { { [ i \in 1..n |-> [ orderId |-> OrderId(i), side |-> f[i][1],
                               execTime |-> f[i][2], execPrice |-> 20 + i ] ] :
              f \in [ 1..n -> ExecSides \X (1..MaxStamp) ] } : n \in 0..MaxFeed }

\* trades as open_trade leaves them (watermark = entry time) or with the
\* watermark advanced by an earlier call
HeldTrades ==
  { [ side |-> sd, qty |-> 1, entry_price |-> 10, sl_price |-> 9, tp_price |-> 12,
      opened_at |-> 1, entry_order_id |-> OrderId(0), time_stop_minutes |-> 0,
      entry_exec_time_ms |-> 1, last_exec_time_ms |-> wm ] :
      sd \in {"LONG", "SHORT"}, wm \in 1..(MaxStamp - 1) }

InitRecon ==
  /\ config = CHOOSE c \in ConfigSet : TRUE
  /\ now = MaxStamp + 1
  /\ sm = FreshState(config, now)
  /\ lastOp = "init"
  /\ ret = NoRet
  /\ trades_fed = 0
  /\ gw_position = FlatPosition
  /\ gw_executions \in Feeds
  /\ gw_pending = <<>>
  /\ gw_orders = 0
  /\ held_trade \in { Some(t) : t \in HeldTrades }
  /\ active_trade = held_trade
  /\ ex_obs = NoObs
  /\ pc = "monitor"
  /\ snapshot = NoSnapshot
  /\ in_rows \in PositionLists
  /\ risk_call = NoRiskCall
  /\ returned = {}
  /\ PstIdle
  /\ HookIdle

\* poll_trade_close(trade) on the trade object the caller holds
PollHeldTrade ==
  /\ IsSome(held_trade)
  /\ LET out == poll_trade_close(active_trade, Val(held_trade), in_rows, gw_executions)
     IN /\ held_trade' = Some(out.trade)
        /\ active_trade' = out.slot
        /\ returned' = IF IsSome(out.row) THEN returned \cup { Val(out.row).orderId }
                                          ELSE returned
        /\ ex_obs' = [ NoObs EXCEPT !.op = "poll_trade_close",
                                    !.open_size = Some(out.open_size),
                                    !.queries = out.queries,
                                    !.fill_found = out.fill_found,
                                    !.result = out.result,
                                    !.watermark = Some(out.trade.last_exec_time_ms) ]
  /\ UNCHANGED <<smvars, gwvars, pc, snapshot, in_rows, risk_call>>
  /\ UNCHANGED <<pstvars, hookvars>>

\* bootstrap_open_position / refresh_active_trade on the position list
RefreshOnRows ==
  /\ active_trade' = refresh_active_trade(active_trade, in_rows, now)
  /\ ex_obs' = [ NoObs EXCEPT !.op = "refresh_active_trade",
                              !.open_size = Some(open_size(in_rows)) ]
  /\ UNCHANGED <<smvars, gwvars, pc, held_trade, snapshot, in_rows, risk_call, returned>>
  /\ UNCHANGED <<pstvars, hookvars>>

\* the position is closed at the venue
GwFlat ==
  /\ in_rows # <<>>
  /\ open_size(in_rows) > 0
  /\ in_rows' = [ k \in DOMAIN in_rows |-> FlatPosition ]
  /\ ex_obs' = [ NoObs EXCEPT !.op = "gateway" ]
  /\ UNCHANGED <<smvars, gwvars, active_trade, pc, held_trade, snapshot, risk_call, returned>>
  /\ UNCHANGED <<pstvars, hookvars>>

NextRecon ==
  \/ PollHeldTrade
  \/ RefreshOnRows
  \/ GwFlat

SpecRecon == InitRecon /\ [][NextRecon]_vars

(* ------------------- open_trade against a given feed -------------------- *)
\* open_trade as a function of what the venue answers and of the execution
\* feed its fill discovery reads: the clock stands after every stamp of the
\* feed, the order is answered with the id of one of the feed's executions,
\* with an id the feed does not hold, or without an id, and the feed is
\* served from the first or only from the last query of the discovery.
FeedOrderIds == { UnknownOrderId } \cup { OrderId(j) : j \in 1..(MaxFeed + 1) }
FeedVisibleAt == {1, FetchAttempts}

\* an order filled in two executions at different prices
SplitFeeds ==
  { << [ orderId |-> OrderId(1), side |-> sd, execTime |-> t, execPrice |-> 21 ],
       [ orderId |-> OrderId(1), side |-> sd, execTime |-> t, execPrice |-> 22 ] >> :
      sd \in ExecSides, t \in 1..MaxStamp }

InitOpen ==
  /\ config = CHOOSE c \in ConfigSet : TRUE
  /\ now = MaxStamp + 1
  /\ sm = FreshState(config, now)
  /\ lastOp = "init"
  /\ ret = NoRet
  /\ trades_fed = 0
  /\ gw_position = FlatPosition
  /\ gw_executions \in Feeds \cup SplitFeeds
  /\ gw_pending = <<>>
  /\ gw_orders = 0
  /\ active_trade = None
  /\ ex_obs = NoObs
  /\ DrvIdle
  /\ PstIdle
  /\ HookIdle

\* create_order raises: nothing is built, the slot is as it was
OpenOnFeedRaises ==
  /\ pc = "cycle"
  /\ ex_obs' = [ NoObs EXCEPT !.op = "open_trade", !.raised = TRUE ]
  /\ UNCHANGED <<smvars, gwvars, active_trade, drvvars>>
  /\ UNCHANGED <<pstvars, hookvars>>

\* open_trade returns: the caller holds the trade it returned
OpenOnFeed ==
  /\ pc = "cycle"
  /\ \E in \in Intents, oid \in FeedOrderIds, k \in FeedVisibleAt :
     \E fill \in { fetch_fill([ i \in 1..FetchAttempts |->
                                  IF i >= k THEN gw_executions ELSE <<>> ], oid) } :
       /\ active_trade' = Some(new_trade(in.side, in.qty, in.entry_price, in.sl_price,
                                         in.tp_price, in.time_stop_minutes, oid, fill, now))
       /\ gw_position' =
            IF oid = UnknownOrderId
              THEN gw_position
              ELSE apply_order(gw_position, IF in.side = "LONG" THEN "Buy" ELSE "Sell",
                               in.qty,
                               IF IsSome(fill.price) THEN Val(fill.price) ELSE in.entry_price,
                               in.sl_price, in.tp_price)
       /\ ex_obs' = [ NoObs EXCEPT !.op = "open_trade",
                                   !.order_sent = (oid # UnknownOrderId),
                                   !.queries = fill.queries,
                                   !.fill_found = IsSome(fill.price),
                                   !.visible_at = k ]
  /\ gw_orders' = gw_orders + 1
  /\ held_trade' = active_trade'
  /\ pc' = "monitor"
  /\ UNCHANGED <<smvars, gw_executions, gw_pending, snapshot, in_rows, risk_call, returned>>
  /\ UNCHANGED <<pstvars, hookvars>>

NextOpen ==
  \/ OpenOnFeedRaises
  \/ OpenOnFeed

SpecOpen == InitOpen /\ [][NextOpen]_vars

(* ------------------------------- BotRunner ------------------------------ *)
\* One process run of the driver against the gateway: __init__ recovers an
\* open position, then run() repeats _cycle; an exception anywhere in a cycle
\* is caught by run(), which starts the next cycle.  pc is "boot" (inside
\* __init__), "cycle" (between cycles), "monitor" (inside _monitor_trade,
\* before poll_trade_close), "time_stop" (inside _monitor_trade, before
\* close_trade) or "stopped" (__init__ failed).  lastOp names the last step
\* of the driver and ex_obs the executor call it made, whether the call
\* raised, whether an order was accepted, and the price it returned.  The state snapshot on disk is not part of this model.

\* the run's configuration: time stop disabled or one minute; one loss
\* starts the short cooldown; one trade a day, or the profile's ceiling
DriverConfigs ==
  { [ c EXCEPT !.time_stop_minutes = m, !.cooldown_short_minutes = 1,
               !.cooldown_long_minutes = 2,
               !.max_consecutive_losses_for_cooldown = 1,
               !.max_daily_trades = d ] :
      c \in { CHOOSE c0 \in ConfigSet : TRUE }, m \in {0, 1},
      d \in {1, 4} }

\* the instrument of the run
DriverMinQty == <<1, 1>>
DriverQtyStep == <<1, 1>>

\* a position left open at the venue by an earlier run
LeftoverPosition ==
  [ size |-> 1, side |-> "Buy", entryPrice |-> 10, stopLoss |-> 9, takeProfit |-> 12 ]

\* the execution of the driver's own market order is visible to the first
\* query of the fill discovery (a fill discovery that finds nothing is the
\* order answered without an order id)
DriverVisibleAt == {1}

\* snapshots of a tradeable market
DriverSnapshots == [ price : Prices, atr : {2}, vwap_distance_pct : {0} ]

\* TradeSignal of ScalpV0Strategy.generate_signal: a setup, or NO_TRADE
TradeSignals(cfg, snap) ==
  { [ side |-> "LONG", entry_price |-> snap.price, sl_price |-> snap.price - 2,
      tp_price |-> snap.price + 1, time_stop_minutes |-> cfg.time_stop_minutes ],
    [ side |-> "SHORT", entry_price |-> snap.price, sl_price |-> snap.price + 2,
      tp_price |-> snap.price - 1, time_stop_minutes |-> cfg.time_stop_minutes ] }

\* BotRunner._calculate_pnl
calculate_pnl(trade, exit_price) ==
  LET delta == exit_price - trade.entry_price
  IN (IF trade.side = "SHORT" THEN -delta ELSE delta) * trade.qty

\* BotRunner._post_cycle_housekeeping on the state machine: the
\* current_mode() / current_cooldown_countdown() reads
post_cycle_housekeeping(s, t) == evaluate_timers(s, t)

\* variant: the closed trade is reported twice
finalize_trade_twice(s, cfg, t, trade, exit_price) ==
  LET tr == [ pnl |-> calculate_pnl(trade, exit_price), fees |-> 0, day |-> current_day(t) ]
  IN on_trade_closed(on_trade_closed(evaluate_timers(s, t), cfg, t, tr), cfg, t, tr)

\* BotRunner._finalize_trade on the state machine
finalize_trade(s, cfg, t, trade, exit_price) ==
  on_trade_closed(evaluate_timers(s, t), cfg, t,
                  [ pnl |-> calculate_pnl(trade, exit_price), fees |-> 0,
                    day |-> current_day(t) ])

\* "close_trade(...) or snapshot.price"
or_price(result, snap) ==
  IF IsSome(result) /\ Val(result) # 0 THEN Val(result) ELSE snap.price

InitRun ==
  /\ config \in DriverConfigs
  /\ now = 1
  /\ sm = FreshState(config, now)
  /\ lastOp = "init"
  /\ ret = NoRet
  /\ trades_fed = 0
  /\ gw_position \in {FlatPosition, LeftoverPosition}
  /\ gw_executions = <<>>
  /\ gw_pending = <<>>
  /\ gw_orders = 0
  /\ active_trade = None
  /\ ex_obs = NoObs
  /\ pc = "boot"
  /\ held_trade = None
  /\ snapshot = NoSnapshot
  /\ in_rows = <<>>
  /\ risk_call = NoRiskCall
  /\ returned = {}
  /\ PstIdle
  /\ HookIdle

\* __init__: bootstrap_open_position; a gateway error ends the process
Boot ==
  /\ pc = "boot"
  /\ \/ /\ active_trade' = refresh_active_trade(active_trade, get_position(gw_position), now)
        /\ ex_obs' = [ NoObs EXCEPT !.op = "refresh_active_trade",
                                    !.open_size = Some(open_size(get_position(gw_position))) ]
        /\ pc' = "cycle"
     \/ /\ ex_obs' = [ NoObs EXCEPT !.op = "refresh_active_trade", !.raised = TRUE ]
        /\ pc' = "stopped"
        /\ UNCHANGED active_trade
  /\ lastOp' = "boot"
  /\ UNCHANGED <<config, now, sm, ret, trades_fed, gwvars,
                 held_trade, snapshot, in_rows, risk_call, returned>>
  /\ UNCHANGED <<pstvars, hookvars>>

\* _cycle with a NO_TRADE signal
CycleNoTrade ==
  /\ pc = "cycle"
  /\ \E snap \in DriverSnapshots : snapshot' = snap
  /\ sm' = post_cycle_housekeeping(sm, now)
  /\ lastOp' = "cycle"
  /\ ex_obs' = [ NoObs EXCEPT !.op = "cycle" ]
  /\ UNCHANGED <<config, now, ret, trades_fed, gwvars, active_trade,
                 pc, held_trade, in_rows, risk_call, returned>>
  /\ UNCHANGED <<pstvars, hookvars>>

\* _cycle with a setup that the limits checker blocks
CycleBlocked ==
  /\ pc = "cycle"
  /\ \E snap \in DriverSnapshots :
     \E limit \in { limits_evaluate(sm, config, now, snap) } :
       /\ ~limit.allow_trade
       /\ snapshot' = snap
       /\ sm' = post_cycle_housekeeping(limit.sm, now)
  /\ lastOp' = "cycle_blocked"
  /\ ex_obs' = [ NoObs EXCEPT !.op = "cycle" ]
  /\ UNCHANGED <<config, now, ret, trades_fed, gwvars, active_trade,
                 pc, held_trade, in_rows, risk_call, returned>>
  /\ UNCHANGED <<pstvars, hookvars>>

\* the part of _cycle up to open_trade: the signals the limits checker
\* allows and the risk manager sizes, each with the state machine as
\* evaluate leaves it and the RiskResult
SizedFor(snap, limit, sig) ==
  { su \in { [ snap |-> snap, sig |-> sig, limit |-> limit, risk |-> risk ] :
               risk \in { risk_evaluate(config, DriverMinQty, DriverQtyStep,
                                        sig.entry_price, sig.sl_price, sig.tp_price) } } :
      su.limit.allow_trade /\ IsSome(su.risk.result) }

SizedSetups ==
  UNION { UNION { SizedFor(snap, limit, sig) :
                    sig \in TradeSignals(config, snap),
                    limit \in { limits_evaluate(sm, config, now, snap) } } :
          snap \in DriverSnapshots }

\* the sized quantity as the order quantity (the step is one unit)
OrderQty(risk) == Val(risk.result).qty[1] \div Val(risk.result).qty[2]

\* _cycle: open_trade raises; run() catches it and goes to the next cycle
\* (order submissions are explored while the venue still takes orders)
CycleOpenRaises ==
  /\ pc = "cycle"
  /\ gw_orders < MaxOrders
  /\ \E su \in SizedSetups :
       /\ snapshot' = su.snap
       /\ sm' = su.limit.sm
  /\ ex_obs' = [ NoObs EXCEPT !.op = "open_trade", !.raised = TRUE ]
  /\ lastOp' = "cycle"
  /\ UNCHANGED <<config, now, ret, trades_fed, gwvars, active_trade,
                 pc, held_trade, in_rows, risk_call, returned>>
  /\ UNCHANGED <<pstvars, hookvars>>

\* _cycle: open_trade whose order the venue answers without an order id
CycleOpenRejected ==
  /\ pc = "cycle"
  /\ gw_orders < MaxOrders
  /\ \E su \in SizedSetups :
     \E fill \in { fetch_fill([ i \in 1..FetchAttempts |-> gw_executions ], UnknownOrderId) } :
       /\ snapshot' = su.snap
       /\ sm' = su.limit.sm
       /\ active_trade' = Some(new_trade(su.sig.side, OrderQty(su.risk), su.sig.entry_price,
                                         su.sig.sl_price, su.sig.tp_price,
                                         su.sig.time_stop_minutes, UnknownOrderId, fill, now))
  /\ ex_obs' = [ NoObs EXCEPT !.op = "open_trade" ]
  /\ held_trade' = active_trade'
  /\ returned' = {}
  /\ pc' = "monitor"
  /\ lastOp' = "open_trade"
  /\ UNCHANGED <<config, now, ret, trades_fed, gwvars, in_rows, risk_call>>
  /\ UNCHANGED <<pstvars, hookvars>>

\* _cycle: open_trade whose order the venue accepts
CycleOpenAccepted ==
  /\ pc = "cycle"
  /\ \E su \in SizedSetups, price \in Prices, k \in DriverVisibleAt :
     \E row \in { Execution(IF su.sig.side = "LONG" THEN "Buy" ELSE "Sell", price) } :
     \E fill \in { fetch_fill(Polls(row, k), row.orderId) } :
       /\ snapshot' = su.snap
       /\ sm' = su.limit.sm
       /\ Accept(row.side, OrderQty(su.risk), row, k, su.sig.sl_price, su.sig.tp_price)
       /\ active_trade' = Some(new_trade(su.sig.side, OrderQty(su.risk), su.sig.entry_price,
                                         su.sig.sl_price, su.sig.tp_price,
                                         su.sig.time_stop_minutes, row.orderId, fill, now))
  /\ ex_obs' = [ NoObs EXCEPT !.op = "open_trade", !.order_sent = TRUE ]
  /\ held_trade' = active_trade'
  /\ returned' = {}
  /\ pc' = "monitor"
  /\ lastOp' = "open_trade"
  /\ UNCHANGED <<config, now, ret, trades_fed, in_rows, risk_call>>
  /\ UNCHANGED <<pstvars, hookvars>>

\* _monitor_trade: a gateway query of poll_trade_close raises; the exception
\* leaves _monitor_trade and _cycle, and the local trade is dropped
MonitorPollRaises ==
  /\ pc = "monitor"
  /\ \E snap \in DriverSnapshots : snapshot' = snap
  /\ \/ ex_obs' = [ NoObs EXCEPT !.op = "poll_trade_close", !.raised = TRUE ]
     \/ /\ open_size(get_position(gw_position)) = 0
        /\ ex_obs' = [ NoObs EXCEPT !.op = "poll_trade_close", !.raised = TRUE,
                                    !.open_size = Some(0) ]
  /\ held_trade' = None
  /\ pc' = "cycle"
  /\ lastOp' = "monitor_error"
  /\ UNCHANGED <<config, now, sm, ret, trades_fed, gwvars, active_trade,
                 in_rows, risk_call, returned>>
  /\ UNCHANGED <<pstvars, hookvars>>

\* the state machine after _finalize_trade and the housekeeping of the cycle
Finalized(tr, exit_price) ==
  post_cycle_housekeeping(finalize_trade(sm, config, now, tr, exit_price), now)

\* _monitor_trade: one iteration up to the time-stop test.  A returned exit
\* price finalizes the trade ("SL/TP") and ends the cycle; otherwise the
\* loop goes on, to close_trade when the time stop is reached
MonitorPoll ==
  /\ pc = "monitor"
  /\ \E snap \in DriverSnapshots : snapshot' = snap
  /\ \E out \in { poll_trade_close(active_trade, Val(held_trade),
                                   get_position(gw_position), gw_executions) } :
       /\ active_trade' = out.slot
       /\ ex_obs' = [ NoObs EXCEPT !.op = "poll_trade_close",
                                   !.open_size = Some(out.open_size),
                                   !.result = out.result ]
       /\ IF IsSome(out.result)
            THEN /\ sm' = Finalized(out.trade, Val(out.result))
                 /\ trades_fed' = trades_fed + 1
                 /\ held_trade' = None
                 /\ pc' = "cycle"
                 /\ lastOp' = "finalize_trade"
            ELSE /\ held_trade' = Some(out.trade)
                 /\ pc' = IF is_time_stop_reached(out.trade, now)
                            THEN "time_stop" ELSE "monitor"
                 /\ lastOp' = "monitor"
                 /\ UNCHANGED <<sm, trades_fed>>
  /\ UNCHANGED <<config, now, ret, gwvars, in_rows, risk_call, returned>>
  /\ UNCHANGED <<pstvars, hookvars>>

\* _monitor_trade, time stop: close_trade finds the slot empty and returns
\* None; the trade is finalized at the snapshot price
TimeStopNoTrade ==
  /\ pc = "time_stop"
  /\ active_trade = None
  /\ ex_obs' = [ NoObs EXCEPT !.op = "close_trade" ]
  /\ sm' = Finalized(Val(held_trade), or_price(None, snapshot))
  /\ trades_fed' = trades_fed + 1
  /\ held_trade' = None
  /\ pc' = "cycle"
  /\ lastOp' = "finalize_trade"
  /\ UNCHANGED <<config, now, ret, gwvars, active_trade, snapshot, in_rows,
                 risk_call, returned>>
  /\ UNCHANGED <<pstvars, hookvars>>

\* _monitor_trade, time stop: create_order raises
TimeStopRaises ==
  /\ pc = "time_stop"
  /\ IsSome(active_trade)
  /\ ex_obs' = [ NoObs EXCEPT !.op = "close_trade", !.raised = TRUE ]
  /\ held_trade' = None
  /\ pc' = "cycle"
  /\ lastOp' = "monitor_error"
  /\ UNCHANGED <<config, now, sm, ret, trades_fed, gwvars, active_trade, snapshot,
                 in_rows, risk_call, returned>>
  /\ UNCHANGED <<pstvars, hookvars>>

\* _monitor_trade, time stop: the closing order is answered without an
\* order id
TimeStopRejected ==
  /\ pc = "time_stop"
  /\ IsSome(active_trade)
  /\ \E fill \in { fetch_fill([ i \in 1..FetchAttempts |-> gw_executions ], UnknownOrderId) } :
     \E out \in { close_trade(active_trade, fill) } :
       /\ active_trade' = out.slot
       /\ ex_obs' = [ NoObs EXCEPT !.op = "close_trade", !.result = out.result ]
       /\ sm' = Finalized(Val(held_trade), or_price(out.result, snapshot))
  /\ trades_fed' = trades_fed + 1
  /\ held_trade' = None
  /\ pc' = "cycle"
  /\ lastOp' = "finalize_trade"
  /\ UNCHANGED <<config, now, ret, gwvars, snapshot, in_rows, risk_call, returned>>
  /\ UNCHANGED <<pstvars, hookvars>>

\* _monitor_trade, time stop: the closing order is accepted
TimeStopAccepted ==
  /\ pc = "time_stop"
  /\ IsSome(active_trade)
  /\ \E price \in Prices, k \in DriverVisibleAt :
     \E row \in { Execution(closing_side(Val(active_trade)), price) } :
     \E fill \in { fetch_fill(Polls(row, k), row.orderId) } :
     \E out \in { close_trade(active_trade, fill) } :
       /\ Accept(row.side, Val(active_trade).qty, row, k, 0, 0)
       /\ active_trade' = out.slot
       /\ ex_obs' = [ NoObs EXCEPT !.op = "close_trade", !.order_sent = TRUE,
                                   !.result = out.result ]
       /\ sm' = Finalized(Val(held_trade), or_price(out.result, snapshot))
  /\ trades_fed' = trades_fed + 1
  /\ held_trade' = None
  /\ pc' = "cycle"
  /\ lastOp' = "finalize_trade"
  /\ UNCHANGED <<config, now, ret, snapshot, in_rows, risk_call, returned>>
  /\ UNCHANGED <<pstvars, hookvars>>

DriverStep ==
  \/ Boot
  \/ CycleNoTrade
  \/ CycleBlocked
  \/ CycleOpenRaises
  \/ CycleOpenRejected
  \/ CycleOpenAccepted
  \/ MonitorPollRaises
  \/ MonitorPoll
  \/ TimeStopNoTrade
  \/ TimeStopRaises
  \/ TimeStopRejected
  \/ TimeStopAccepted

NextRun ==
  \/ ExTick
  \/ GwProtectiveFill
  \/ GwPublish
  \/ DriverStep

SpecRun == InitRun /\ [][NextRun]_vars

\* the steps of the driver in which no gateway call raises
DriverReturns ==
  \/ Boot
  \/ CycleNoTrade
  \/ CycleBlocked
  \/ CycleOpenRejected
  \/ CycleOpenAccepted
  \/ MonitorPoll
  \/ TimeStopNoTrade
  \/ TimeStopRejected
  \/ TimeStopAccepted

\* run() never stops calling _cycle and the loops only sleep for a bounded
\* time, so the driver always takes its next step and the clock advances;
\* nothing obliges the venue to fill, to publish or to fail
SpecRunFair == SpecRun /\ WF_vars(DriverReturns) /\ WF_vars(ExTick)

(* ------------------- BotRunner with the snapshot file -------------------- *)
\* The driver over several process runs, with the persisted snapshot: each
\* cycle ends with _post_cycle_housekeeping, which saves the state machine
\* every SaveEvery-th cycle of the run; the process can stop at any point and
\* is started again from the file.  The executor and the venue are reduced
\* to what reaches the state machine: a trade is opened, and later closes
\* with some profit or loss.  pc is "cycle" (between cycles) or "monitor"
\* (a trade is open); gw_orders counts the opening orders submitted.
MaxLiveOrders == 3
MaxLiveMinute == 2
MaxLiveDay == 1
MaxCycles == 5

SaveEvery == 5

\* one trade a day or the profile's ceiling; no time stop
LiveConfigs == { c \in DriverConfigs : c.time_stop_minutes = 0 }

\* profit or loss of a finalized trade
LivePnls == {-15, -8, 4}

\* persistence.load_state / StateManager.__init__ / the current_mode() call
\* of BotRunner.__init__
load_and_start(cfg, t, file) ==
  evaluate_timers(IF file = <<>> THEN FreshState(cfg, t) ELSE Restore(cfg, t, Val(file)), t)

\* _post_cycle_housekeeping: the state machine after _check_mode_transition
\* and the file after the cycle that brings the counter to n
housekeeping_file(s, t, n, file) ==
  IF n % SaveEvery = 0 THEN Some(export_state(evaluate_timers(s, t))) ELSE file

InitLive ==
  /\ config \in LiveConfigs
  /\ now = 0
  /\ sm = FreshState(config, now)
  /\ lastOp = "init"
  /\ ret = NoRet
  /\ trades_fed = 0
  /\ gw_position = FlatPosition
  /\ gw_executions = <<>>
  /\ gw_pending = <<>>
  /\ gw_orders = 0
  /\ active_trade = None
  /\ ex_obs = NoObs
  /\ DrvIdle
  /\ PstIdle
  /\ HookIdle

\* the clock: a minute passes, or the next UTC day begins
LiveTick ==
  /\ \E t \in { now + 1, (current_day(now) + 1) * MinutesPerDay } :
       /\ current_day(t) <= MaxLiveDay
       /\ t - current_day(t) * MinutesPerDay <= MaxLiveMinute
       /\ now' = t
  /\ lastOp' = "tick"
  /\ UNCHANGED <<config, sm, ret, trades_fed, gwvars, exvars, drvvars, pstvars, hookvars>>

\* _cycle with a NO_TRADE signal
LiveNoTrade ==
  /\ pc = "cycle"
  /\ cycle_counter < MaxCycles
  /\ sm' = post_cycle_housekeeping(sm, now)
  /\ cycle_counter' = cycle_counter + 1
  /\ disk' = housekeeping_file(sm, now, cycle_counter', disk)
  /\ lastOp' = "cycle"
  /\ UNCHANGED <<config, now, ret, trades_fed, gwvars, exvars, drvvars, halt_seen, hookvars>>

\* _cycle with a setup that the limits checker blocks
LiveBlocked ==
  /\ pc = "cycle"
  /\ cycle_counter < MaxCycles
  /\ \E snap \in DriverSnapshots :
     \E limit \in { limits_evaluate(sm, config, now, snap) } :
       /\ ~limit.allow_trade
       /\ snapshot' = snap
       /\ ret' = [ NoRet EXCEPT !.allowed = FALSE, !.reason = limit.reason,
                                !.mode = limit.sm.mode, !.pre_mode = sm.mode ]
       /\ sm' = post_cycle_housekeeping(limit.sm, now)
       /\ cycle_counter' = cycle_counter + 1
       /\ disk' = housekeeping_file(limit.sm, now, cycle_counter', disk)
  /\ lastOp' = "cycle_blocked"
  /\ UNCHANGED <<config, now, trades_fed, gwvars, exvars, pc, held_trade, in_rows,
                 risk_call, returned, halt_seen, hookvars>>

\* _cycle with a setup that the limits checker allows: the opening order is
\* submitted and the driver enters _monitor_trade
LiveOpen ==
  /\ pc = "cycle"
  /\ cycle_counter < MaxCycles
  /\ gw_orders < MaxLiveOrders
  /\ \E snap \in DriverSnapshots :
     \E limit \in { limits_evaluate(sm, config, now, snap) } :
       /\ limit.allow_trade
       /\ snapshot' = snap
       /\ ret' = [ NoRet EXCEPT !.mode = limit.sm.mode, !.pre_mode = sm.mode ]
       /\ sm' = limit.sm
  /\ gw_orders' = gw_orders + 1
  /\ pc' = "monitor"
  /\ lastOp' = "open_trade"
  /\ UNCHANGED <<config, now, trades_fed, gw_position, gw_executions, gw_pending,
                 exvars, held_trade, in_rows, risk_call, returned, pstvars, hookvars>>

\* _monitor_trade sees the trade closed: _finalize_trade reports it, and the
\* cycle ends with the housekeeping
LiveFinalize ==
  /\ pc = "monitor"
  /\ \E pnl \in LivePnls :
     \E tr \in { [ pnl |-> pnl, fees |-> 0, day |-> current_day(now) ] } :
     \E closed \in { on_trade_closed(evaluate_timers(sm, now), config, now, tr) } :
       /\ ret' = [ NoRet EXCEPT !.mode = closed.mode, !.pre_mode = sm.mode,
                                !.trade = Some(tr) ]
       /\ halt_seen' = (halt_seen \/ closed.mode = HALT)
       /\ sm' = post_cycle_housekeeping(closed, now)
       /\ cycle_counter' = cycle_counter + 1
       /\ disk' = housekeeping_file(closed, now, cycle_counter', disk)
  /\ trades_fed' = trades_fed + 1
  /\ pc' = "cycle"
  /\ lastOp' = "finalize_trade"
  /\ UNCHANGED <<config, now, gwvars, exvars, held_trade, snapshot, in_rows,
                 risk_call, returned, hookvars>>

\* the process stops, between cycles or inside _monitor_trade, and is
\* started again: BotRunner.__init__ loads the file; the trade that was
\* being monitored is not monitored by the new run
CrashRestart ==
  /\ sm' = load_and_start(config, now, disk)
  /\ ret' = [ NoRet EXCEPT !.mode = sm'.mode, !.pre_mode = sm.mode ]
  /\ cycle_counter' = 0
  /\ pc' = "cycle"
  /\ lastOp' = "restart"
  /\ UNCHANGED <<config, now, trades_fed, gwvars, exvars, held_trade, snapshot,
                 in_rows, risk_call, returned, disk, halt_seen, hookvars>>

NextLive ==
  \/ LiveTick
  \/ LiveNoTrade
  \/ LiveBlocked
  \/ LiveOpen
  \/ LiveFinalize
  \/ CrashRestart

SpecLive == InitLive /\ [][NextLive]_vars

(* ======================= claims on StateManager ======================== *)
Accessors == {"can_trade_now", "current_mode", "current_cooldown_countdown"}

\* C1: after can_trade_now() has evaluated the timers it returns (False, mode)
\* exactly when the resulting mode is COOLDOWN or HALT and (True, None)
\* exactly when it is NORMAL or LIMITED.
C1_CanTradeNow ==
  lastOp = "can_trade_now" =>
    /\ ret.allowed = (sm.mode \in {NORMAL, LIMITED})
    /\ ret.allowed = FALSE => ret.reason = Some(sm.mode) /\ sm.mode \in {COOLDOWN, HALT}
    /\ ret.allowed = TRUE => ret.reason = None

C1_Witness ==
  /\ lastOp = "can_trade_now"
  /\ sm.mode = LIMITED
  /\ ret.allowed = TRUE
  /\ ret.pre_mode = COOLDOWN

C3_HaltAbsorbing == [][sm.mode = HALT => sm'.mode = HALT]_vars

\* HALT observed by an accessor after the pending cooldown and limited
\* window have both run out
C3_Witness ==
  /\ sm.mode = HALT
  /\ lastOp \in Accessors
  /\ ret.pre_mode = HALT
  /\ IsSome(sm.cooldown_until) /\ now >= Val(sm.cooldown_until)
  /\ IsSome(sm.limited_until) /\ now >= Val(sm.limited_until)

\* the LimitedWindow a daily-loss trigger at state s (end of the call, clock
\* t) is specified to set
RecoveryAmount(cfg) ==
  PctOf(cfg.reference_account_size_usdt, cfg.limited_mode_recovery_pct)

WindowPresent(s) == IsSome(s.limited_until) /\ IsSome(s.limited_exit_equity)
WindowAbsent(s) == s.limited_until = None /\ s.limited_exit_equity = None

DailyLossCall(s, cfg) == DailyLossBreached(s, cfg) /\ ~DrawdownBreached(s, cfg)
ConsecutiveLossCall(s, cfg) ==
  ~DailyLossBreached(s, cfg) /\ ConsecutiveBreached(s, cfg) /\ ~DrawdownBreached(s, cfg)

\* C4: for every configured cooldown_long_minutes, an on_trade_closed with a
\* daily-loss breach (and no drawdown breach) leaves the machine in COOLDOWN
\* with next_mode LIMITED, and whenever the machine becomes LIMITED a
\* LimitedWindow is present: threshold = equity at the trigger + reference *
\* recovery_pct, expiry = cooldown expiry + limited_mode_duration_minutes.
C4_DailyLossWindow ==
  [][ /\ (lastOp' = "on_trade_closed" /\ DailyLossCall(sm', config)) =>
           /\ sm'.mode = COOLDOWN
           /\ sm'.next_mode_after_cooldown = LIMITED
           /\ IsSome(sm'.cooldown_until)
           /\ sm'.limited_exit_equity =
                Some(current_equity(sm', config) + RecoveryAmount(config))
           /\ sm'.limited_until =
                Some(Val(sm'.cooldown_until) + config.limited_mode_duration_minutes)
      /\ (sm.mode # LIMITED /\ sm'.mode = LIMITED) =>
           /\ WindowPresent(sm')
           /\ sm.mode = COOLDOWN
           /\ sm'.limited_until = sm.limited_until
           /\ sm'.limited_exit_equity = sm.limited_exit_equity
    ]_vars

\* C5: an on_trade_closed with a consecutive-loss breach (no daily-loss
\* breach, no drawdown breach) leaves the machine in COOLDOWN with next_mode
\* NORMAL (directly in NORMAL when cooldown_short_minutes is zero), and the
\* machine then holds no LimitedWindow, during the cooldown and after it,
\* whatever the mode and window were before the call.
C5_ConsecutiveLossNoWindow ==
  [][ /\ (lastOp' = "on_trade_closed" /\ ConsecutiveLossCall(sm', config)) =>
           /\ IF config.cooldown_short_minutes > 0
                THEN sm'.mode = COOLDOWN /\ sm'.next_mode_after_cooldown = NORMAL
                ELSE sm'.mode = NORMAL
           /\ WindowAbsent(sm')
      /\ (/\ lastOp' \in Accessors
          /\ sm.mode = COOLDOWN /\ sm.next_mode_after_cooldown = NORMAL
          /\ sm'.mode # COOLDOWN) =>
           sm'.mode = NORMAL /\ WindowAbsent(sm')
    ]_vars

\* C6: peak_equity and max_drawdown_pct never decrease from one
\* on_trade_closed to the next, and no other operation changes them.
C6_EquityMonotone ==
  [][ /\ sm'.equity_stats.peak_equity >= sm.equity_stats.peak_equity
      /\ RatioGeq(sm'.equity_stats.max_drawdown_pct, sm.equity_stats.max_drawdown_pct)
      /\ lastOp' # "on_trade_closed" =>
           /\ sm'.equity_stats.peak_equity = sm.equity_stats.peak_equity
           /\ sm'.equity_stats.max_drawdown_pct = sm.equity_stats.max_drawdown_pct
    ]_vars

\* a call after which the peak is above the reference balance and the
\* current drawdown is positive but below the recorded maximum
C6_Witness ==
  /\ lastOp = "on_trade_closed"
  /\ sm.equity_stats.peak_equity > config.reference_account_size_usdt
  /\ current_equity(sm, config) < sm.equity_stats.peak_equity
  /\ ~RatioGeq(Ratio(sm.equity_stats.peak_equity - current_equity(sm, config),
                     sm.equity_stats.peak_equity),
               sm.equity_stats.max_drawdown_pct)

\* C7: round trip: a StateManager constructed with the same config and clock
\* from initial_state = export_state() has the same mode, session stats,
\* equity stats, cooldown timer, next mode, limited window and counters (the
\* operations being functions of that state, config and clock, every later
\* call then behaves identically on both).
C7_RoundTrip == Restore(config, now, export_state(sm)) = sm

C7_Witness ==
  /\ sm.mode = COOLDOWN
  /\ sm.next_mode_after_cooldown = LIMITED
  /\ WindowPresent(sm)
  /\ sm.cooldown_counters.long >= 1
  /\ sm.session_stats.trading_day # current_day(now)
  /\ sm.equity_stats.max_drawdown_pct # <<0, 1>>

\* C8: an accessor never reports a mode whose timer has run out:
\* not COOLDOWN at now >= cooldown_until, not LIMITED at now >= limited_until;
\* one call made past both expiries returns NORMAL; can_trade_now() and
\* current_cooldown_countdown() agree with the mode.
TimersFresh(s, t) ==
  /\ (s.mode = COOLDOWN /\ IsSome(s.cooldown_until)) => t < Val(s.cooldown_until)
  /\ (s.mode = LIMITED /\ IsSome(s.limited_until)) => t < Val(s.limited_until)

PastBothExpiries(s, t) ==
  /\ s.mode = COOLDOWN /\ s.next_mode_after_cooldown = LIMITED
  /\ IsSome(s.cooldown_until) /\ t >= Val(s.cooldown_until)
  /\ IsSome(s.limited_until) /\ t >= Val(s.limited_until)

C8_NoStaleTimer ==
  [][ lastOp' \in Accessors =>
        /\ ret'.mode = sm'.mode
        /\ TimersFresh(sm', now')
        /\ PastBothExpiries(sm, now) => ret'.mode = NORMAL
        /\ lastOp' = "can_trade_now" =>
             ret'.allowed = (ret'.mode \notin {COOLDOWN, HALT})
        /\ lastOp' = "current_cooldown_countdown" =>
             /\ IsSome(ret'.ctype) = (ret'.mode = COOLDOWN)
             /\ ret'.mode = COOLDOWN => ret'.minutes > 0
             /\ ret'.mode # COOLDOWN => ret'.minutes = 0
    ]_vars

\* current_mode() called in COOLDOWN (next LIMITED) past both expiries
C8_Witness ==
  /\ lastOp = "current_mode"
  /\ ret.pre_mode = COOLDOWN
  /\ ret.mode = NORMAL
  /\ sm.next_mode_after_cooldown = LIMITED
  /\ sm.cooldown_counters.long >= 1

\* the step is an on_trade_closed call; ret'.trade is the trade it was given
Closes == lastOp' = "on_trade_closed"
ClosedTrade == Val(ret'.trade)

\* C24: daily counters do not carry over: a trade of another UTC day than
\* trading_day leaves trading_day = the trade's day, daily_pnl = its net pnl,
\* daily_trades = 1 and consecutive_losses = 1 for a net loss, else 0; a
\* trade of the same day adds its net pnl to daily_pnl, one to daily_trades,
\* and increments consecutive_losses on a net loss, resetting it otherwise.
C24_DailyCounters ==
  [][ Closes =>
        LET tr   == ClosedTrade
            old  == sm.session_stats
            new  == sm'.session_stats
            loss == tr.pnl - tr.fees < 0
        IN IF tr.day # old.trading_day
             THEN /\ new.trading_day = tr.day
                  /\ new.daily_pnl = tr.pnl - tr.fees
                  /\ new.daily_trades = 1
                  /\ new.consecutive_losses = IF loss THEN 1 ELSE 0
             ELSE /\ new.trading_day = old.trading_day
                  /\ new.daily_pnl = old.daily_pnl + (tr.pnl - tr.fees)
                  /\ new.daily_trades = old.daily_trades + 1
                  /\ new.consecutive_losses = IF loss THEN old.consecutive_losses + 1 ELSE 0
    ]_vars

\* a losing trade of a new day closed after two losing trades of the day
\* before
C24_Witness ==
  /\ lastOp = "on_trade_closed"
  /\ IsSome(ret.trade)
  /\ Val(ret.trade).day = 1
  /\ sm.session_stats = [ trading_day |-> 1, daily_pnl |-> Val(ret.trade).pnl - Val(ret.trade).fees,
                          daily_trades |-> 1, consecutive_losses |-> 1 ]
  /\ sm.equity_stats.cumulative_pnl < sm.session_stats.daily_pnl - 3
  /\ trades_fed = 3

\* C25: first match wins for the cooldown triggers: each on_trade_closed
\* increments at most one cooldown counter, by exactly one: "long" iff the
\* daily-loss condition holds, "short" iff it does not and the consecutive
\* losses have reached the threshold; with a positive short cooldown and no
\* daily-loss or drawdown breach the mode is then COOLDOWN.
C25_FirstMatchWins ==
  [][ Closes =>
        LET long   == sm'.cooldown_counters.long - sm.cooldown_counters.long
            short  == sm'.cooldown_counters.short - sm.cooldown_counters.short
            daily  == sm'.session_stats.daily_pnl
                        <= -((config.reference_account_size_usdt * config.max_daily_loss_pct[1])
                               \div config.max_daily_loss_pct[2])
            streak == sm'.session_stats.consecutive_losses
                        >= config.max_consecutive_losses_for_cooldown
        IN /\ long = (IF daily THEN 1 ELSE 0)
           /\ short = (IF ~daily /\ streak THEN 1 ELSE 0)
           /\ (short = 1 /\ config.cooldown_short_minutes > 0
                 /\ ~DrawdownBreached(sm', config)) => sm'.mode = COOLDOWN
    ]_vars

\* the close that completes a losing streak without a daily-loss breach, on
\* a machine that has had a daily-loss cooldown before
C25_Witness ==
  /\ lastOp = "on_trade_closed"
  /\ sm.cooldown_counters.short = 1
  /\ sm.cooldown_counters.long = 1
  /\ sm.session_stats.consecutive_losses >= config.max_consecutive_losses_for_cooldown
  /\ ~DailyLossBreached(sm, config)
  /\ sm.mode = COOLDOWN
  /\ sm.next_mode_after_cooldown = NORMAL

\* the cooldown trigger of the call just made, if any: its next mode
LongTriggered == Closes /\ sm'.cooldown_counters.long = sm.cooldown_counters.long + 1
ShortTriggered == Closes /\ sm'.cooldown_counters.short = sm.cooldown_counters.short + 1

\* C26: with a cooldown duration of zero minutes a trigger moves the machine
\* directly to its next mode (LIMITED for the daily-loss trigger, NORMAL for
\* the consecutive-loss trigger): COOLDOWN is not entered, no cooldown timer
\* is set, and the state is otherwise the one reached when a positive
\* cooldown has run out (next mode recorded; for LIMITED the window running
\* from the trigger with threshold = equity at the trigger + recovery).
C26_ZeroMinuteCooldown ==
  [][ /\ (LongTriggered /\ config.cooldown_long_minutes = 0
            /\ ~DrawdownBreached(sm', config)) =>
           /\ sm'.mode = LIMITED
           /\ sm'.cooldown_until = None
           /\ sm'.next_mode_after_cooldown = LIMITED
           /\ sm'.limited_until = Some(now + config.limited_mode_duration_minutes)
           /\ sm'.limited_exit_equity =
                Some(current_equity(sm', config) + RecoveryAmount(config))
      /\ (ShortTriggered /\ config.cooldown_short_minutes = 0
            /\ ~DrawdownBreached(sm', config)) =>
           /\ sm'.mode = NORMAL
           /\ sm'.cooldown_until = None
           /\ sm'.next_mode_after_cooldown = NORMAL
    ]_vars

\* the machine was LIMITED with a window when the trade closed, and after
\* the trade the equity is at or above the window's threshold and the
\* drawdown limit is not breached
RegainedInLimited ==
  /\ Closes
  /\ sm.mode = LIMITED
  /\ WindowPresent(sm)
  /\ current_equity(sm', config) >= Val(sm.limited_exit_equity)
  /\ ~DrawdownBreached(sm', config)

LeavesLimitedForNormal ==
  /\ sm.mode = LIMITED
  /\ \/ sm'.mode = NORMAL
     \/ sm'.mode = COOLDOWN /\ sm'.next_mode_after_cooldown = NORMAL

\* the window of the state being left has expired, or the equity after the
\* step has reached its threshold
ExitConditionHeld ==
  /\ WindowPresent(sm)
  /\ \/ now >= Val(sm.limited_until)
     \/ current_equity(sm', config) >= Val(sm.limited_exit_equity)

\* C28: limited mode is left towards NORMAL (directly or through a
\* cooldown, not through HALT) only when the window has expired or the
\* equity has reached the window's threshold at that moment, and a losing
\* trade never ends LIMITED.
C28_LimitedExitOnlyByTimeOrEquity ==
  [][ /\ LeavesLimitedForNormal => ExitConditionHeld
      /\ (Closes /\ sm.mode = LIMITED /\ is_loss(ClosedTrade) /\ sm'.mode # HALT) =>
           sm'.mode = LIMITED ]_vars

\* C29: whenever cooldown_until is present the mode is COOLDOWN (the timer
\* is absent in NORMAL, LIMITED and HALT).
C29_CooldownTimerOnlyInCooldown ==
  IsSome(sm.cooldown_until) => sm.mode = COOLDOWN

\* C30: whenever limited_until or limited_exit_equity is present the mode
\* is LIMITED, and whenever the mode is LIMITED both are present.
C30_LimitedWindowIffLimited ==
  /\ (IsSome(sm.limited_until) \/ IsSome(sm.limited_exit_equity)) => sm.mode = LIMITED
  /\ sm.mode = LIMITED => WindowPresent(sm)

\* the snapshot read back: mode and the two expiries
StaleSnapshot(payload, t) ==
  \/ /\ payload.mode = COOLDOWN
     /\ IsSome(payload.cooldown_until)
     /\ fromisoformat(Val(payload.cooldown_until)) <= t
  \/ /\ payload.mode = LIMITED
     /\ IsSome(payload.limited_until)
     /\ fromisoformat(Val(payload.limited_until)) <= t

\* C31: the snapshot export_state returns never has mode COOLDOWN with
\* cooldown_until <= now, nor mode LIMITED with limited_until <= now.
C31_ExportNeverStale ==
  lastOp = "export_state" => ~StaleSnapshot(export_state(sm), now)

\* C32: current_mode, can_trade_now, current_cooldown_countdown,
\* export_state and the timer evaluation they run leave the session
\* statistics, the equity statistics and both cooldown counters unchanged.
C32_StatsOnlyByTradeClose ==
  [][ lastOp' \in (Accessors \cup {"export_state"}) =>
        /\ sm'.session_stats = sm.session_stats
        /\ sm'.equity_stats = sm.equity_stats
        /\ sm'.cooldown_counters = sm.cooldown_counters ]_vars

\* an accessor whose timer evaluation moved the mode on, with statistics
\* and counters that trades have changed
C32_Witness ==
  /\ lastOp \in Accessors
  /\ ret.pre_mode = COOLDOWN
  /\ sm.mode = LIMITED
  /\ sm.session_stats.daily_trades = 2
  /\ sm.equity_stats.cumulative_pnl < 0
  /\ sm.cooldown_counters.long = 1

\* a time at or after now by which every timer the state holds has run out
PastEveryTimer(s, t) ==
  Max(t, Max(IF IsSome(s.cooldown_until) THEN Val(s.cooldown_until) ELSE 0,
             IF IsSome(s.limited_until) THEN Val(s.limited_until) ELSE 0))

\* C39: from every reachable state whose mode is COOLDOWN or LIMITED, with
\* no further trade closing, a current_mode() call made late enough returns
\* NORMAL: every COOLDOWN state has a cooldown timer and every LIMITED
\* state a window expiry.
C39_ProtectiveStatesExpire ==
  sm.mode \in {COOLDOWN, LIMITED} =>
    /\ sm.mode = COOLDOWN => IsSome(sm.cooldown_until)
    /\ sm.mode = LIMITED => IsSome(sm.limited_until)
    /\ evaluate_timers(sm, PastEveryTimer(sm, now)).mode = NORMAL

(* ======================= claims on OrderExecutor ======================= *)
\* C9: the active-trade slot goes from set to empty only after a confirmed
\* flat position (the position query of the call reported zero size) or a
\* confirmed closing fill (the call found the matching execution); close_trade
\* does not clear it when no matching fill was found.
C9_ClearedOnlyWhenConfirmed ==
  [][ (IsSome(active_trade) /\ active_trade' = None) =>
        \/ ex_obs'.open_size = Some(0)
        \/ ex_obs'.fill_found
    ]_vars

\* C10: poll_trade_close called while the gateway reports a non-zero total
\* open size returns None, leaves the slot set and the trade's watermark
\* unchanged, and issues no execution-history query.
C10_PollWhileOpen ==
  [][ (ex_obs'.op = "poll_trade_close" /\ open_size(get_position(gw_position)) > 0) =>
        /\ IsSome(active_trade')
        /\ active_trade' = active_trade
        /\ ex_obs'.queries = 0
        /\ ~ex_obs'.raised =>
             /\ ex_obs'.result = None
             /\ ex_obs'.watermark = Some(Val(active_trade).last_exec_time_ms)
    ]_vars

\* a poll answered with an open position, on a trade opened by an accepted
\* order whose fill was discovered
C10_Witness ==
  /\ ex_obs.op = "poll_trade_close"
  /\ ~ex_obs.raised
  /\ IsSome(ex_obs.open_size) /\ Val(ex_obs.open_size) > 0
  /\ IsSome(active_trade)
  /\ Val(active_trade).entry_order_id # UnknownOrderId
  /\ gw_executions # <<>>


\* the executions of the feed that carry the order id of the trade
FillsOf(tr) == { k \in DOMAIN gw_executions : gw_executions[k].orderId = tr.entry_order_id }

\* C23: after a successful open_trade the slot holds the returned trade; its
\* entry_price is the price of the entry order's fill when a fill of that
\* order id was found, else the requested entry price; last_exec_time_ms
\* equals entry_exec_time_ms, which is the time of that fill when found.
C23_EntryFromFill ==
  [][ (ex_obs'.op = "open_trade" /\ ~ex_obs'.raised) =>
        /\ IsSome(active_trade')
        /\ held_trade' = active_trade'
        /\ LET tr == Val(active_trade')
           IN /\ tr.last_exec_time_ms = tr.entry_exec_time_ms
              /\ ex_obs'.fill_found = (FillsOf(tr) # {})
              /\ FillsOf(tr) # {} =>
                   \E k \in FillsOf(tr) :
                     /\ tr.entry_price = gw_executions[k].execPrice
                     /\ tr.entry_exec_time_ms = gw_executions[k].execTime
              /\ \E in \in Intents :
                   /\ tr.side = in.side /\ tr.qty = in.qty
                   /\ tr.sl_price = in.sl_price /\ tr.tp_price = in.tp_price
                   /\ tr.time_stop_minutes = in.time_stop_minutes
                   /\ FillsOf(tr) = {} =>
                        tr.entry_price = in.entry_price /\ tr.entry_exec_time_ms = now
    ]_vars

\* an open_trade that found the fill of its order at the last query, at a
\* price other than the requested one and stamped before the local clock
C23_Witness ==
  /\ ex_obs.op = "open_trade"
  /\ ex_obs.fill_found
  /\ ex_obs.queries = FetchAttempts
  /\ IsSome(active_trade)
  /\ held_trade = active_trade
  /\ Val(active_trade).entry_price \notin { in.entry_price : in \in Intents }
  /\ Val(active_trade).entry_exec_time_ms < now

\* the first execution of the feed that carries the order id of the trade
FirstFillOf(tr) == CHOOSE k \in FillsOf(tr) : \A j \in FillsOf(tr) : k <= j

\* C34: the fill discovery of open_trade issues at most 5 execution-feed
\* queries; it returns the price and time of the first execution with the
\* order's id at the first query that shows one, and nothing after the
\* fifth query when none did.
C34_BoundedFillDiscovery ==
  [][ (ex_obs'.op = "open_trade" /\ ~ex_obs'.raised) =>
        LET tr == Val(active_trade')
        IN /\ ex_obs'.queries \in 1..5
           /\ FillsOf(tr) # {} =>
                /\ ex_obs'.fill_found
                /\ ex_obs'.queries = ex_obs'.visible_at
                /\ tr.entry_price = gw_executions[FirstFillOf(tr)].execPrice
                /\ tr.entry_exec_time_ms = gw_executions[FirstFillOf(tr)].execTime
           /\ FillsOf(tr) = {} =>
                /\ ~ex_obs'.fill_found
                /\ ex_obs'.queries = 5
                /\ tr.entry_exec_time_ms = now
    ]_vars

\* a discovery that found the first of two executions of its order at the
\* fifth query
C34_Witness ==
  /\ ex_obs.op = "open_trade"
  /\ ex_obs.fill_found
  /\ ex_obs.queries = 5
  /\ IsSome(active_trade)
  /\ Cardinality(FillsOf(Val(active_trade))) = 2
  /\ Val(active_trade).entry_price = 21

(* ======================= claims on LimitsChecker ======================= *)
\* the five checks of the pre-trade gate, on the state the call leaves
StateMachineBlock(s) == s.mode \in {COOLDOWN, HALT}
DailyLossGuard(s, cfg) ==
  /\ s.session_stats.daily_pnl * cfg.max_daily_loss_pct[2]
       <= -(cfg.reference_account_size_usdt * cfg.max_daily_loss_pct[1])
  /\ s.mode # LIMITED
DailyTradeGuard(s, cfg) == s.session_stats.daily_trades >= cfg.max_daily_trades
MarketTooDead(snap, cfg) == snap.atr < cfg.min_atr
ExtendedFromVwap(snap) ==
  snap.vwap_distance_pct > VwapLimitTenths \/ snap.vwap_distance_pct < -VwapLimitTenths

\* C18: LimitsChecker.evaluate returns the reason of the first failing check
\* in the order state-machine block, DAILY_LOSS_LIMIT (daily_pnl at or below
\* minus reference * max_daily_loss_pct and mode not LIMITED),
\* DAILY_TRADE_LIMIT, MARKET_TOO_DEAD, EXTENDED_FROM_VWAP, and allows with no
\* reason exactly when none of the five fails.
C18_FirstFailingCheck ==
  lastOp = "limits_evaluate" =>
    /\ ret.reason =
         IF StateMachineBlock(sm) THEN Some(sm.mode)
         ELSE IF DailyLossGuard(sm, config) THEN Some("DAILY_LOSS_LIMIT")
         ELSE IF DailyTradeGuard(sm, config) THEN Some("DAILY_TRADE_LIMIT")
         ELSE IF MarketTooDead(snapshot, config) THEN Some("MARKET_TOO_DEAD")
         ELSE IF ExtendedFromVwap(snapshot) THEN Some("EXTENDED_FROM_VWAP")
         ELSE None
    /\ ret.allowed = (ret.reason = None)
    /\ ret.allowed =
         ~ \/ StateMachineBlock(sm)
           \/ DailyLossGuard(sm, config)
           \/ DailyTradeGuard(sm, config)
           \/ MarketTooDead(snapshot, config)
           \/ ExtendedFromVwap(snapshot)

\* evaluate in LIMITED with the day's loss at the threshold and a dead market:
\* the daily-loss guard is skipped and a later check gives the reason
C18_Witness ==
  /\ lastOp = "limits_evaluate"
  /\ sm.mode = LIMITED
  /\ sm.session_stats.daily_pnl <= -max_daily_loss_abs(config)
  /\ ret.reason = Some("MARKET_TOO_DEAD")
  /\ ExtendedFromVwap(snapshot)

\* C19 (amended): LimitsChecker.evaluate leaves session stats, equity stats and
\* cooldown counters as they were, and changes mode, cooldown timer and
\* limited window only as the lazy timer evaluation at the current time does:
\* not at all unless a cooldown or limited timer has run out.
C19_OnlyTimerExpiry ==
  [][ lastOp' = "limits_evaluate" =>
        /\ sm'.session_stats = sm.session_stats
        /\ sm'.equity_stats = sm.equity_stats
        /\ sm'.cooldown_counters = sm.cooldown_counters
        /\ sm'.next_mode_after_cooldown = sm.next_mode_after_cooldown
        /\ TimersFresh(sm, now) => sm' = sm
        /\ TimersFresh(sm', now')
        /\ sm' # sm => /\ sm.mode \in {COOLDOWN, LIMITED}
                       /\ sm'.mode \in {LIMITED, NORMAL}
    ]_vars

\* C19 as stated: evaluate performs no mutation of the state machine
C19_NoMutation == [][ lastOp' = "limits_evaluate" => sm' = sm ]_vars

\* evaluate called past the cooldown expiry: the mode it leaves differs from
\* the one it found
C19_Witness ==
  /\ lastOp = "limits_evaluate"
  /\ ret.pre_mode = COOLDOWN
  /\ sm.mode # COOLDOWN
  /\ sm.cooldown_until = None


(* ======================== claims on RiskManager ======================== *)
\* q is an integer multiple of step
IsMultipleOf(q, step) == (q[1] * step[2]) % (q[2] * step[1]) = 0

\* C20: whenever RiskManager.evaluate returns, qty is an integer multiple of
\* the instrument's qty_step, qty <= risk_amount / |entry_price - sl_price|,
\* and risk_amount = reference * risk_per_trade_pct, for every positive
\* qty_step.
C20_SizedWithinRisk ==
  (lastOp = "risk_evaluate" /\ IsSome(risk_call.result)) =>
    LET r == Val(risk_call.result)
        stop_distance == IF risk_call.entry_price >= risk_call.sl_price
                           THEN risk_call.entry_price - risk_call.sl_price
                           ELSE risk_call.sl_price - risk_call.entry_price
    IN /\ r.risk_amount[1] * config.risk_per_trade_pct[2]
            = config.reference_account_size_usdt * config.risk_per_trade_pct[1]
                * r.risk_amount[2]
       /\ r.qty[1] * r.risk_amount[2] * stop_distance <= r.risk_amount[1] * r.qty[2]
       /\ IsMultipleOf(r.qty, risk_call.qty_step)

\* C21: RiskManager.evaluate fails with the invalid-input error and returns
\* no RiskResult when entry_price equals sl_price, for every configuration,
\* instrument and tp_price.
C21_ZeroStopFails ==
  (lastOp = "risk_evaluate" /\ risk_call.entry_price = risk_call.sl_price) =>
    /\ risk_call.raised = Some("Stop distance must be positive")
    /\ risk_call.result = None

\* a call with entry = stop on an instrument and budget for which the other
\* stops are sized
C21_Witness ==
  /\ lastOp = "risk_evaluate"
  /\ risk_call.entry_price = risk_call.sl_price
  /\ risk_call.tp_price = risk_call.entry_price
  /\ risk_call.qty_step = <<1, 10>>
  /\ IsSome(risk_call.raised)

\* q floored to an integer multiple of step (q >= 0, step > 0)
FloorToStep(q, step) ==
  Ratio(((q[1] * step[2]) \div (q[2] * step[1])) * step[1], step[2])

\* risk_amount / |entry - sl| of the last call, for a positive stop distance
RawQty ==
  LET risk_amount == RatMul(<<config.reference_account_size_usdt, 1>>,
                            config.risk_per_trade_pct)
      dist == IF risk_call.entry_price >= risk_call.sl_price
                THEN risk_call.entry_price - risk_call.sl_price
                ELSE risk_call.sl_price - risk_call.entry_price
  IN Ratio(risk_amount[1], risk_amount[2] * dist)

\* C22: evaluate fails with the below-minimum error whenever the quantity
\* floored to the instrument's step is less than min_qty, and never returns
\* a RiskResult with qty < min_qty (in particular never qty = 0).
C22_BelowMinimumFails ==
  (lastOp = "risk_evaluate" /\ risk_call.entry_price # risk_call.sl_price) =>
    /\ RatLess(FloorToStep(RawQty, risk_call.qty_step), risk_call.min_qty) =>
         /\ risk_call.raised = Some("Position size below exchange minimum")
         /\ risk_call.result = None
    /\ IsSome(risk_call.result) =>
         /\ ~RatLess(Val(risk_call.result).qty, risk_call.min_qty)
         /\ Val(risk_call.result).qty[1] > 0


(* ================== claims on position reconciliation ================== *)
\* C13: after refresh_active_trade (bootstrap_open_position) returns, the
\* slot is set exactly when the position list has a row of non-zero size;
\* when set, side (Buy -> LONG, otherwise SHORT), quantity, entry price,
\* stop and target are those of the first such row, and the open time and
\* the watermark are the current time.
C13_SlotFromFirstOpenRow ==
  (ex_obs.op = "refresh_active_trade" /\ ~ex_obs.raised) =>
    LET nz == { k \in DOMAIN in_rows : in_rows[k].size # 0 }
    IN /\ IsSome(active_trade) <=> nz # {}
       /\ nz # {} =>
            LET row == in_rows[CHOOSE k \in nz : \A j \in nz : k <= j]
                t   == Val(active_trade)
            IN /\ t.side = IF row.side = "Buy" THEN "LONG" ELSE "SHORT"
               /\ t.qty = row.size
               /\ t.entry_price = row.entryPrice
               /\ t.sl_price = row.stopLoss
               /\ t.tp_price = row.takeProfit
               /\ t.opened_at = now
               /\ t.last_exec_time_ms = now

\* a refresh answered with a flat row followed by an open short row
C13_Witness ==
  /\ ex_obs.op = "refresh_active_trade"
  /\ Len(in_rows) = 2
  /\ in_rows[1].size = 0
  /\ in_rows[2].side = "Sell"
  /\ IsSome(active_trade)
  /\ Val(active_trade).side = "SHORT"

\* the executions of the feed that can close the trade: inverse side,
\* stamped strictly after the watermark
ExitCandidates(t, feed) ==
  { k \in DOMAIN feed : /\ feed[k].execTime > t.last_exec_time_ms
                        /\ feed[k].side = (IF t.side = "LONG" THEN "Sell" ELSE "Buy") }

FlatPoll == ex_obs'.op = "poll_trade_close" /\ ~ex_obs'.raised /\ ex_obs'.open_size = Some(0)

\* C14: on a flat position poll_trade_close returns the price of the earliest
\* execution stamped strictly after the trade's watermark on the inverse
\* side and moves the watermark to its stamp; executions at or before the
\* watermark and executions on the entry side are never returned; the
\* watermark never decreases and no execution is returned twice for a trade.
C14_EarliestExitFill ==
  [][ (IsSome(held_trade) /\ FlatPoll) =>
        LET t    == Val(held_trade)
            feed == gw_executions
            cand == ExitCandidates(t, feed)
        IN /\ Val(held_trade').last_exec_time_ms >= t.last_exec_time_ms
           /\ cand # {} =>
                \E k \in cand :
                  /\ \A j \in cand : feed[k].execTime <= feed[j].execTime
                  /\ ex_obs'.result = Some(feed[k].execPrice)
                  /\ Val(held_trade').last_exec_time_ms = feed[k].execTime
                  /\ feed[k].orderId \notin returned
                  /\ returned' = returned \cup { feed[k].orderId }
           /\ IsSome(ex_obs'.result) =>
                \E k \in cand : ex_obs'.result = Some(feed[k].execPrice)
    ]_vars

\* a second exit fill returned for the same trade, with an entry-side
\* execution stamped after the first one in the feed
C14_Witness ==
  /\ ex_obs.op = "poll_trade_close"
  /\ IsSome(ex_obs.result)
  /\ Cardinality(returned) = 2
  /\ \E k \in DOMAIN gw_executions :
       /\ gw_executions[k].side # closing_side(Val(held_trade))
       /\ gw_executions[k].execTime > 1

\* C15: on a flat position with no inverse-side execution stamped strictly
\* after the watermark, poll_trade_close returns None and leaves the
\* watermark as it was.
C15_NoFabricatedExit ==
  [][ (IsSome(held_trade) /\ FlatPoll /\ ExitCandidates(Val(held_trade), gw_executions) = {}) =>
        /\ ex_obs'.result = None
        /\ Val(held_trade').last_exec_time_ms = Val(held_trade).last_exec_time_ms
        /\ returned' = returned
    ]_vars

\* a flat poll that returned nothing although the feed holds an entry-side
\* execution after the watermark and an inverse-side one at the watermark
C15_Witness ==
  /\ ex_obs.op = "poll_trade_close"
  /\ ex_obs.open_size = Some(0)
  /\ ex_obs.result = None
  /\ \E k \in DOMAIN gw_executions :
       /\ gw_executions[k].side # closing_side(Val(held_trade))
       /\ gw_executions[k].execTime > Val(held_trade).last_exec_time_ms
  /\ \E k \in DOMAIN gw_executions :
       /\ gw_executions[k].side = closing_side(Val(held_trade))
       /\ gw_executions[k].execTime = Val(held_trade).last_exec_time_ms


(* ========================= claims on BotRunner ========================= *)
\* a step of the driver (not of the clock or the venue)
DriverActs == ex_obs'.op \notin {"tick", "gateway"}

\* C11: open_trade is never invoked while the active-trade slot is set (a
\* position is tracked), the first cycle after a start that recovered an
\* open position included.
C11_OpenOnlyWhenIdle ==
  [][ ex_obs'.op = "open_trade" => active_trade = None ]_vars

\* C12: a gateway error raised by poll_trade_close or close_trade inside the
\* monitoring loop leaves the active-trade slot as it was, and while that
\* trade is still in the slot the next step of the driver polls it again
\* instead of taking a new trading decision.
C12_RetryAfterError ==
  [][ /\ (ex_obs'.raised /\ ex_obs'.op \in {"poll_trade_close", "close_trade"}) =>
           active_trade' = active_trade
      /\ (lastOp = "monitor_error" /\ IsSome(active_trade) /\ DriverActs) =>
           /\ ex_obs'.op = "poll_trade_close"
           /\ pc = "monitor"
    ]_vars

\* the trade in the monitoring loop can reach its time stop within the
\* clock's range, or has none
DeadlineInRange ==
  /\ IsSome(held_trade)
  /\ \/ Val(held_trade).time_stop_minutes <= 0
     \/ Val(held_trade).opened_at + Val(held_trade).time_stop_minutes <= MaxExecNow

\* C16: once the position is flat the monitoring loop terminates, by an exit
\* fill or, when none is ever found, by finalizing at a fallback price, for
\* every time_stop_minutes, zero and negative included (an exception also
\* ends the loop).
C16_MonitorTerminates ==
  (pc = "monitor" /\ gw_position.size = 0 /\ DeadlineInRange) ~> (pc \notin {"monitor", "time_stop"})

\* C17: is_time_stop_reached(now) is false for every now when
\* time_stop_minutes <= 0 and otherwise true exactly when
\* now >= opened_at + time_stop_minutes; the driver goes to the time-stop
\* close_trade only when it is true.
C17_TimeStop ==
  [][ /\ (pc = "monitor" /\ ex_obs'.op = "poll_trade_close" /\ ~ex_obs'.raised
            /\ ex_obs'.result = None) =>
           LET t == Val(held_trade')
           IN (pc' = "time_stop") <=>
                (t.time_stop_minutes > 0 /\ now >= t.opened_at + t.time_stop_minutes)
      /\ ex_obs'.op = "close_trade" =>
           /\ IsSome(held_trade)
           /\ Val(held_trade).time_stop_minutes > 0
           /\ now >= Val(held_trade).opened_at + Val(held_trade).time_stop_minutes
    ]_vars

\* the loop of a trade with a time stop has polled at its deadline, found
\* no exit and gone to the time-stop close
C17_Witness ==
  /\ pc = "time_stop"
  /\ lastOp = "monitor"
  /\ ex_obs.op = "poll_trade_close"
  /\ Val(held_trade).time_stop_minutes > 0
  /\ now >= Val(held_trade).opened_at + Val(held_trade).time_stop_minutes

\* C33: in the composed system started fresh, session_stats.daily_trades
\* never exceeds max_daily_trades.
C33_DailyTradesCapped ==
  sm.session_stats.daily_trades <= config.max_daily_trades

\* the ceiling is reached and the next setup is blocked by the trade-count
\* guard
C33_Witness ==
  /\ lastOp = "cycle_blocked"
  /\ sm.mode = NORMAL
  /\ sm.session_stats.daily_trades = config.max_daily_trades
  /\ limits_evaluate(sm, config, now, snapshot).reason = Some("DAILY_TRADE_LIMIT")

\* the step is a time-stop close_trade whose market order the venue took
TimeStopOrderSent ==
  /\ pc = "time_stop"
  /\ ex_obs'.op = "close_trade"
  /\ ex_obs'.order_sent

\* C37: under every interleaving of the monitoring loop with the gateway,
\* close_trade submits its closing market order only while the gateway
\* position of the trade is still non-zero, and the time-stop close leaves
\* no new opposite-side position open at the gateway.
C37_TimeStopAddsNoExposure ==
  [][ TimeStopOrderSent =>
        /\ gw_position.size > 0
        /\ gw_position'.size = 0 ]_vars

\* the step reports a closed trade to the state machine
ReportsClose == trades_fed' # trades_fed

C35_HaltSurvivesRestart ==
  [][ halt_seen => gw_orders' = gw_orders ]_vars

\* the reasons of the two daily guards
DailyGuards == { Some("DAILY_TRADE_LIMIT"), Some("DAILY_LOSS_LIMIT") }

\* evaluate on a tradeable market is blocked by a daily guard
BlockedByDailyGuard(s, t) ==
  \E snap \in DriverSnapshots : limits_evaluate(s, config, t, snap).reason \in DailyGuards

\* C36: with no trade open and the machine in NORMAL, once the UTC date is
\* past session_stats.trading_day an evaluate with an acceptable market
\* snapshot is no longer blocked by DAILY_TRADE_LIMIT or DAILY_LOSS_LIMIT.
C36_DailyGuardsRelease ==
  (pc = "cycle" /\ sm.mode = NORMAL /\ current_day(now) > sm.session_stats.trading_day)
    => ~BlockedByDailyGuard(sm, now)

(* ---------------------- TradingView webhook service --------------------- *)
\* trading_bot: the POST /webhook/tradingview handler and the in-memory
\* position registry.  The handler is a coroutine without an await, so each
\* request runs to its response before the next one starts.  Quantities
\* and prices are small integers.
MaxHookRequests == 4

\* Settings.strategies: the configured strategies and their symbols
HookStrategies == {"s1", "s2"}
HookSymbol(strategy) == IF strategy = "s1" THEN "btcusdt" ELSE "BTCUSDT"

\* str.upper on the symbols in use
Upper(symbol) == IF symbol = "btcusdt" THEN "BTCUSDT" ELSE symbol

\* state._key
hook_key(symbol, strategy) == << Upper(symbol), strategy >>

\* state.is_position_open
is_position_open(reg, symbol, strategy) == hook_key(symbol, strategy) \in DOMAIN reg

\* state.get_position: None when the key is absent
hook_get_position(reg, symbol, strategy) ==
  IF hook_key(symbol, strategy) \in DOMAIN reg
    THEN Some(reg[hook_key(symbol, strategy)]) ELSE None

\* state.mark_position_open
mark_position_open(reg, symbol, strategy, side, qty, entry_price) ==
  [ k \in DOMAIN reg \cup { hook_key(symbol, strategy) } |->
      IF k = hook_key(symbol, strategy)
        THEN [ symbol |-> symbol, strategy |-> strategy, side |-> side, qty |-> qty,
               entry_price |-> entry_price ]
        ELSE reg[k] ]

\* variant: the key is built from the symbol as configured
mark_position_closed_raw_key(reg, symbol, strategy) ==
  [ k \in DOMAIN reg \ { << symbol, strategy >> } |-> reg[k] ]

\* state.mark_position_closed
mark_position_closed(reg, symbol, strategy) ==
  [ k \in DOMAIN reg \ { hook_key(symbol, strategy) } |-> reg[k] ]

\* the last successful order of a key, recorded
note_success(hist, key, action) ==
  [ k \in DOMAIN hist \cup { key } |-> IF k = key THEN action ELSE hist[k] ]

\* TradingViewPayload: secret, strategy, side, action (the price is fixed)
HookPayloads ==
  [ secret : {"ok", "bad"}, strategy : HookStrategies \cup {"s3"},
    side : {"long", "short"}, action : {"entry", "exit"}, price : {10} ]

\* what the exchange answers during one request: the balance (None: the
\* call fails), and the order result (success, executed quantity; 0: the
\* quantity is missing from the answer)
HookAnswers == [ balance : {None, Some(0), Some(100)}, success : BOOLEAN, qty : {0, 1} ]

\* the quantity sized for an entry (compute_position_size capped by
\* max_position_qty)
HookQty == 2

\* the response of tradingview_webhook to payload p with the exchange
\* answering a, and the registry it leaves
hook_response(reg, p, a) ==
  LET symbol == HookSymbol(p.strategy)
      key    == hook_key(symbol, p.strategy)
      side   == IF p.action = "entry"
                  THEN (IF p.side = "long" THEN "buy" ELSE "sell")
                  ELSE (IF p.side = "short" THEN "buy" ELSE "sell")
      obs    == [ NoHookObs EXCEPT !.action = p.action, !.key = key ]
  IN IF p.secret # "ok"
       THEN [ reg |-> reg, obs |-> [ NoHookObs EXCEPT !.action = p.action, !.status = "401" ] ]
     ELSE IF p.strategy \notin HookStrategies
       THEN [ reg |-> reg, obs |-> [ NoHookObs EXCEPT !.action = p.action, !.status = "ignored" ] ]
     ELSE IF p.action = "entry"
       THEN IF is_position_open(reg, symbol, p.strategy)
              THEN [ reg |-> reg, obs |-> [ obs EXCEPT !.status = "already_open" ] ]
            ELSE IF a.balance = None
              THEN [ reg |-> reg, obs |-> [ obs EXCEPT !.status = "502" ] ]
            ELSE IF Val(a.balance) <= 0
              THEN [ reg |-> reg, obs |-> [ obs EXCEPT !.status = "400" ] ]
            ELSE IF ~a.success
              THEN [ reg |-> reg, obs |-> [ obs EXCEPT !.order_sent = TRUE, !.status = "502" ] ]
            ELSE [ reg |-> mark_position_open(reg, symbol, p.strategy, side,
                                              IF a.qty # 0 THEN a.qty ELSE HookQty, p.price),
                   obs |-> [ obs EXCEPT !.order_sent = TRUE, !.success = TRUE,
                                        !.status = "ok" ] ]
     ELSE IF hook_get_position(reg, symbol, p.strategy) = None
       THEN [ reg |-> reg, obs |-> [ obs EXCEPT !.status = "no_position" ] ]
     ELSE IF ~a.success
       THEN [ reg |-> reg, obs |-> [ obs EXCEPT !.order_sent = TRUE, !.status = "502" ] ]
     ELSE [ reg |-> mark_position_closed(reg, symbol, p.strategy),
            obs |-> [ obs EXCEPT !.order_sent = TRUE, !.success = TRUE, !.status = "ok" ] ]

InitHook ==
  /\ config = CHOOSE c \in ConfigSet : TRUE
  /\ now = 0
  /\ sm = FreshState(config, now)
  /\ lastOp = "init"
  /\ ret = NoRet
  /\ trades_fed = 0
  /\ gw_position = FlatPosition
  /\ gw_executions = <<>>
  /\ gw_pending = <<>>
  /\ gw_orders = 0
  /\ active_trade = None
  /\ ex_obs = NoObs
  /\ DrvIdle
  /\ PstIdle
  /\ HookIdle

\* one request handled
TradingviewWebhook ==
  /\ hook_requests < MaxHookRequests
  /\ \E p \in HookPayloads, a \in HookAnswers :
     \E out \in { hook_response(ACTIVE_POSITIONS, p, a) } :
       /\ ACTIVE_POSITIONS' = out.reg
       /\ hook_obs' = out.obs
       /\ hook_hist' = IF out.obs.success
                         THEN note_success(hook_hist, out.obs.key, p.action)
                         ELSE hook_hist
  /\ hook_requests' = hook_requests + 1
  /\ lastOp' = "tradingview_webhook"
  /\ UNCHANGED <<config, now, sm, ret, trades_fed, gwvars, exvars, drvvars, pstvars>>

\* GET /health: reads the registry
Healthcheck ==
  /\ hook_obs' = [ NoHookObs EXCEPT !.action = "health", !.status = "ok" ]
  /\ lastOp' = "healthcheck"
  /\ UNCHANGED <<config, now, sm, ret, trades_fed, gwvars, exvars, drvvars, pstvars,
                 ACTIVE_POSITIONS, hook_hist, hook_requests>>

NextHook ==
  \/ TradingviewWebhook
  \/ Healthcheck

SpecHook == InitHook /\ [][NextHook]_vars

(* -------------------- claims on the webhook service --------------------- *)
\* every key the configured strategies can produce
HookKeys == { hook_key(HookSymbol(st), st) : st \in HookStrategies }

\* the request reached the entry/exit branch (secret accepted, strategy
\* configured)
HookRouted(obs) == obs.key # <<>>

====
